---- MODULE Spec2Model ----
(***************************************************************************)
(* Model of the AI inference service (apps/ai).                            *)
(*                                                                         *)
(* Part 1: VideoStreamService.StreamFrames, the bidirectional streaming    *)
(* handler of api/grpc/servicers/video_stream_servicer.py.  One           *)
(* VideoStreamService object is registered on the gRPC server and every    *)
(* StreamFrames call runs on a worker of the server's thread pool, so the  *)
(* calls of the model interleave.  A call is a generator: it is resumed to *)
(* pull the next request and suspended at each yield.                      *)
(*                                                                         *)
(* Part 2: HealthRegistry of api/lifespan/health_registry.py, the          *)
(* process-wide table of component health that several threads update     *)
(* and read under one reentrant lock.                                      *)
(*                                                                         *)
(* Part 3: ComponentRegistry of api/lifespan/registry.py, the class-level  *)
(* list of lifecycle component classes and the validation of their         *)
(* depends_on declarations.                                                *)
(*                                                                         *)
(* Part 4: LifespanManager of api/lifespan/manager.py: instantiation of    *)
(* the registered classes in dependency batches, batched startup and       *)
(* reverse-order shutdown.  The helpers the manager calls and src/ does    *)
(* not define (get_dependency_batches, _get_startup_batches,               *)
(* _startup_component, _shutdown_component) follow the specification text. *)
(***************************************************************************)
EXTENDS Integers, Sequences, FiniteSets, TLC

\* ------------------------------------------------------------------ bounds

\* Frame messages sent by the clients, all calls together.
MaxFrames == 3

\* StreamFrames calls made on the one VideoStreamService.
Calls == {1, 2}

\* camera_id values a client sends; "" is the protobuf default of an unset field.
RawCameraIds == {"", "cam1"}

\* timestamp_ms values a client sends.
Timestamps == {0, 10, 50}

\* time_ms values the face pipeline reports for a processed frame.
ProcessingTimes == {7}

\* Faces in a process_frame result: "full" has a bbox and an embedding,
\* "no_embedding" lacks the embedding and is skipped by _map_face_to_proto.
FaceLists == {<<>>, <<"full">>, <<"no_embedding">>}

\* ------------------------------------------------------- program constants

\* VideoStreamService.__init__: min_frame_interval_ms default.
MinFrameIntervalMs == 33

\* _decode_jpeg: payloads shorter than this are rejected before decoding.
JpegMinBytes == 100

\* ------------------------------------------------------------------ inputs

\* An image_jpeg payload: its length and what cv2.imdecode makes of it.
Payloads ==
    { [len |-> 0, codec |-> "none"],
      [len |-> JpegMinBytes - 1, codec |-> "image"],
      [len |-> JpegMinBytes, codec |-> "none"],
      [len |-> JpegMinBytes, codec |-> "empty"],
      [len |-> JpegMinBytes, codec |-> "raise"],
      [len |-> JpegMinBytes, codec |-> "image"] }

NoRequest == [camera_id |-> "-", frame_id |-> 0, timestamp_ms |-> 0]

NoResponse == [camera_id |-> "-", frame_id |-> 0, processing_time_ms |-> 0,
               total_faces_detected |-> 0, faces |-> 0]

\* ------------------------------------------------------------------- state

VARIABLES
    last_process_time,  \* VideoStreamService._last_process_time (dict)
    pipeline_calls,     \* invocations of face_service.process_frame
    pc,                 \* per call: "idle", "iter", "frame", "done"
    active,             \* per call: what context.is_active() answers
    req,                \* per call: the fields read from the request being handled
    last_time,          \* per call: local last_time of _should_process_frame
    camera_metrics,     \* per call: local dict camera_id -> CameraMetrics
    log,                \* per call: one entry per frame message handled
    resp,               \* per call: the response yielded last
    nresp,              \* per call: number of responses yielded
    summaries,          \* per call: camera_session_summary events per camera
    status              \* per call: how the call ended

stream_vars == <<last_process_time, pipeline_calls, pc, active, req, last_time,
                 camera_metrics, log, resp, nresp, summaries, status>>

VARIABLES
    hr_components,      \* HealthRegistry._components (dict name -> ComponentHealth)
    hr_lock,            \* HealthRegistry._component_lock (RLock): owner and depth
    hr_pc,              \* per thread: position in the registry method it runs
    hr_call,            \* per thread: the method it runs and its arguments
    hr_returned,        \* what the last get_overall_status/get_health_summary returned
    hr_hist,            \* per name: the update calls that have returned, in order
    hr_created          \* per name: how often a ComponentHealth was constructed

health_vars == <<hr_components, hr_lock, hr_pc, hr_call, hr_returned, hr_hist,
                 hr_created>>

VARIABLES
    reg_components,     \* ComponentRegistry._components (list of classes)
    reg_component_map,  \* ComponentRegistry._component_map (dict name -> class)
    reg_outcome,        \* outcome of validate_dependencies on these registrations
    reg_registered      \* the last call of register: its argument and how it ended

registry_vars == <<reg_components, reg_component_map, reg_outcome, reg_registered>>

VARIABLES
    mgr,                \* the LifespanManager object: its attributes
    mgr_run,            \* the manager method in progress: position and locals
    mgr_events          \* the calls made on the components, in order

manager_vars == <<mgr, mgr_run, mgr_events>>

VARIABLES
    face_service,       \* the shared FaceRecognitionService: its attributes
    face_call,          \* per worker: position in the service method it runs
    face_returned       \* the call that ended last: request, result, response

face_vars == <<face_service, face_call, face_returned>>

VARIABLES
    grpc_server,        \* the GRPCServer object: its server handle, and counts
    grpc_returned       \* the call of start or stop that ended last

grpc_vars == <<grpc_server, grpc_returned>>

lifespan_vars == <<health_vars, registry_vars, manager_vars, grpc_vars>>

\* What the methods of the health registry leave alone.
non_health_vars == <<stream_vars, registry_vars, manager_vars, face_vars, grpc_vars>>

\* What the methods of the component registry leave alone.
non_registry_vars == <<stream_vars, health_vars, manager_vars, face_vars, grpc_vars>>

\* What the methods of the lifespan manager leave alone.
non_manager_vars == <<stream_vars, health_vars, face_vars, grpc_vars>>

vars == <<stream_vars, lifespan_vars, face_vars>>

\* ----------------------------------------------------------- pure helpers

\* StreamFrames line 117: getattr(req, "camera_id", "") or "unknown".
CameraId(r) == IF r.camera_id = "" THEN "unknown" ELSE r.camera_id

CameraIds == { CameraId([camera_id |-> raw]) : raw \in RawCameraIds }

\* dict.get(key, default)
DictGet(d, k, default) == IF k \in DOMAIN d THEN d[k] ELSE default

\* d[key] = value
DictSet(d, k, v) == [x \in DOMAIN d \cup {k} |-> IF x = k THEN v ELSE d[x]]

\* CameraMetrics(camera_id=...): the dataclass defaults.
NewCameraMetrics(cam) ==
    [camera_id |-> cam, frames_processed |-> 0, frames_dropped |-> 0,
     faces_detected |-> 0, total_processing_ms |-> 0]

\* CameraMetrics.add_frame
add_frame(m, processing_ms, face_count) ==
    [m EXCEPT !.frames_processed = @ + 1,
              !.faces_detected = @ + face_count,
              !.total_processing_ms = @ + processing_ms]

\* _decode_jpeg: TRUE iff an image comes back (None otherwise).
_decode_jpeg(jpeg) ==
    IF jpeg.len = 0 \/ jpeg.len < JpegMinBytes
    THEN FALSE
    ELSE jpeg.codec = "image"

\* Faulty variant: the last-processed timestamp is left out of the comparison.
_should_process_frame_NoLast(timestamp_ms, last) ==
    ~ (timestamp_ms < MinFrameIntervalMs)

\* Faulty variant: a last-processed timestamp of 0 is taken to mean "no frame
\* yet" and lets the frame pass.
_should_process_frame_ZeroPasses(timestamp_ms, last) ==
    last = 0 \/ ~ ((timestamp_ms - last) < MinFrameIntervalMs)

\* The comparison of _should_process_frame (line 429): TRUE iff the frame passes.
_should_process_frame(timestamp_ms, last) ==
    ~ ((timestamp_ms - last) < MinFrameIntervalMs)

\* Faulty variant: the error response does not carry the frame_id.
_create_error_response_NoFrameId(cam, frame_id, error_message) ==
    [camera_id |-> cam, frame_id |-> 0, processing_time_ms |-> 0,
     total_faces_detected |-> 0, faces |-> 0]

\* _create_error_response: the message argument is not stored anywhere.
_create_error_response(cam, frame_id, error_message) ==
    [camera_id |-> cam, frame_id |-> frame_id, processing_time_ms |-> 0,
     total_faces_detected |-> 0, faces |-> 0]

\* Faulty variant: the throttled response names no camera of its own.
_create_throttled_response_NoCamera(cam, frame_id) ==
    [camera_id |-> "unknown", frame_id |-> frame_id, processing_time_ms |-> 0,
     total_faces_detected |-> 0, faces |-> 0]

\* _create_throttled_response
_create_throttled_response(cam, frame_id) ==
    [camera_id |-> cam, frame_id |-> frame_id, processing_time_ms |-> 0,
     total_faces_detected |-> 0, faces |-> 0]

\* _map_face_to_proto: TRUE iff a FaceResult comes back (None otherwise).
_map_face_to_proto(face) == face = "full"

\* _build_response
_build_response(result, cam, frame_id) ==
    [camera_id |-> cam, frame_id |-> frame_id,
     processing_time_ms |-> result.time_ms,
     total_faces_detected |-> Len(result.faces),
     faces |-> Cardinality({i \in 1..Len(result.faces) :
                               _map_face_to_proto(result.faces[i])})]

\* _log_final_metrics: one camera_session_summary per camera of the call's
\* dict, cameras with frames_processed = 0 skipped.
_log_final_metrics(sums, metrics) ==
    [cam \in CameraIds |->
        IF cam \in DOMAIN metrics /\ metrics[cam].frames_processed # 0
        THEN sums[cam] + 1
        ELSE sums[cam]]

\* Frame messages consumed so far, all calls together.
RECURSIVE TotalFrames(_, _)
TotalFrames(l, S) ==
    IF S = {} THEN 0
    ELSE LET c == CHOOSE x \in S : TRUE
         IN Len(l[c]) + TotalFrames(l, S \ {c})

\* ------------------------------------------------- health registry: data

\* Threads that use the one HealthRegistry (lifespan loop, gRPC server, routes).
HealthThreads == {1, 2}

\* Component names reported to the registry.
HealthNames == {"grpc_server"}

\* Update calls (register_component, mark_*) started on the registry, all
\* threads together.
MaxHealthCalls == 3

\* HealthStatus (lines 14-17), by value.
HealthStatuses == {"healthy", "degraded", "unhealthy", "unknown"}

\* The calls that update the registry, with the arguments that matter:
\* register_component carries a status, the mark_* methods fix theirs.
UpdateCalls ==
    LET Call(o, n, st) == [op |-> o, name |-> n, status |-> st, overall |-> "-"] IN
    { Call("register_component", n, st) : n \in HealthNames, st \in HealthStatuses }
    \cup { Call("mark_healthy", n, "healthy") : n \in HealthNames }
    \cup { Call("mark_degraded", n, "degraded") : n \in HealthNames }
    \cup { Call("mark_failed", n, "unhealthy") : n \in HealthNames }

\* The calls that read the registry; overall is the local of get_health_summary.
ReadCalls ==
    { [op |-> o, name |-> "-", status |-> "-", overall |-> "-"] :
        o \in {"get_overall_status", "get_health_summary"} }

NoCall == [op |-> "-", name |-> "-", status |-> "-", overall |-> "-"]

NoReturn == [op |-> "-", overall |-> "-", components |-> <<>>]

\* Paths of GET requests.
Paths == {"/health", "/api/v1/health"}

\* The handler a GET on a path is routed to: the health router has the
\* prefix /api/v1/health (health.py line 9), its health_check route the path
\* "" (line 13), and register_routers includes it without a prefix (main.py
\* lines 279-282).  No handler: "-".
RoutedTo(path) == IF path = "/api/v1/health" THEN "health_check" ELSE "-"

\* The answer to a GET no route matches: 404 with the body {"detail": ...}.
NotFound(path) ==
    [op |-> "GET", path |-> path, status_code |-> 404, keys |-> {"detail"},
     overall |-> "-", components |-> <<>>]

\* Faulty variant: only Unhealthy answers 503.
health_check_UnhealthyOnly(path, health_summary) ==
    [op |-> "GET", path |-> path,
     status_code |-> IF health_summary.overall = "unhealthy" THEN 503 ELSE 200,
     keys |-> {"overall_status", "timestamp", "components", "summary"},
     overall |-> health_summary.overall,
     components |-> health_summary.components]

\* health_check lines 32-42: the status code follows overall_status of the
\* summary, the body is the summary (its keys: lines 226-237 of
\* health_registry.py).
health_check(path, health_summary) ==
    [op |-> "GET", path |-> path,
     status_code |-> IF health_summary.overall \in {"degraded", "unhealthy"}
                     THEN 503 ELSE 200,
     keys |-> {"overall_status", "timestamp", "components", "summary"},
     overall |-> health_summary.overall,
     components |-> health_summary.components]

\* mark_healthy is register_component(name, HEALTHY) (lines 115-117).
ViaRegister(call) == call.op \in {"register_component", "mark_healthy"}

\* The ComponentHealth each method constructs for a name it does not know:
\* register_component lines 101-106 (dataclass defaults: no error message, no
\* failure), mark_degraded lines 131-138, mark_failed lines 159-166.
NewComponentHealth(call) ==
    IF ViaRegister(call)
    THEN [status |-> call.status, error_message |-> "", consecutive_failures |-> 0,
          total_checks |-> 1]
    ELSE [status |-> call.status, error_message |-> "reason",
          consecutive_failures |-> 1, total_checks |-> 1]

\* Faulty variant: a report of Healthy clears the error message.
AssignStatus_ClearsError(h, call) ==
    IF ViaRegister(call)
    THEN [h EXCEPT !.status = call.status,
                   !.error_message = IF call.status = "healthy" THEN "" ELSE @]
    ELSE [h EXCEPT !.status = call.status, !.error_message = "reason"]

\* The first statements on a known component: register_component line 93 sets
\* the status; mark_degraded lines 124-125 and mark_failed lines 152-153 set
\* the status and the error message.
AssignStatus(h, call) ==
    IF ViaRegister(call)
    THEN [h EXCEPT !.status = call.status]
    ELSE [h EXCEPT !.status = call.status, !.error_message = "reason"]

\* Faulty variant: a report of Healthy does not reset consecutive_failures.
CountCheck_NoReset(h, call) ==
    IF ViaRegister(call)
    THEN [h EXCEPT !.total_checks = @ + 1]
    ELSE [h EXCEPT !.consecutive_failures = @ + 1, !.total_checks = @ + 1]

\* The counter statements on a known component: register_component lines
\* 96-99, mark_degraded lines 128-129, mark_failed lines 156-157.
CountCheck(h, call) ==
    IF ViaRegister(call)
    THEN [h EXCEPT !.total_checks = @ + 1,
                   !.consecutive_failures = IF call.status = "healthy" THEN 0 ELSE @]
    ELSE [h EXCEPT !.consecutive_failures = @ + 1, !.total_checks = @ + 1]

\* Faulty variant: Degraded is looked for before Unhealthy.
get_overall_status_DegradedFirst(components) ==
    LET statuses == { components[n].status : n \in DOMAIN components } IN
    IF DOMAIN components = {} THEN "unknown"
    ELSE IF "degraded" \in statuses THEN "degraded"
    ELSE IF "unhealthy" \in statuses THEN "unhealthy"
    ELSE IF \A st \in statuses : st = "healthy" THEN "healthy"
    ELSE "unknown"

\* get_overall_status lines 196-210, on the dict it reads.
get_overall_status(components) ==
    LET statuses == { components[n].status : n \in DOMAIN components } IN
    IF DOMAIN components = {} THEN "unknown"
    ELSE IF \E st \in statuses : st = "unhealthy" THEN "unhealthy"
    ELSE IF \E st \in statuses : st = "degraded" THEN "degraded"
    ELSE IF \A st \in statuses : st = "healthy" THEN "healthy"
    ELSE "unknown"

\* Faulty variant: the lock never makes a thread wait.
CanAcquire_Always(lock, t) == TRUE

\* RLock.acquire returns when no other thread owns the lock.
CanAcquire(lock, t) == lock.owner \in {0, t}

Acquired(lock, t) == [owner |-> t, depth |-> lock.depth + 1]

Released(lock) ==
    IF lock.depth <= 1 THEN [owner |-> 0, depth |-> 0]
    ELSE [lock EXCEPT !.depth = @ - 1]

\* HealthRegistry.__init__ lines 66-73, with no thread in a method.
HealthRegistryInit ==
    /\ hr_components = <<>>
    /\ hr_lock = [owner |-> 0, depth |-> 0]
    /\ hr_pc = [t \in HealthThreads |-> "idle"]
    /\ hr_call = [t \in HealthThreads |-> NoCall]
    /\ hr_returned = NoReturn
    /\ hr_hist = [n \in HealthNames |-> <<>>]
    /\ hr_created = [n \in HealthNames |-> 0]

\* ---------------------------------------------- component registry: data

\* Values of the name attribute of the component classes.
RegNames == {"A", "B", "C"}

\* Values of the depends_on attribute: lists of up to two different names (a
\* class may name itself).
DependsLists ==
    {<<>>} \cup { <<a>> : a \in RegNames }
           \cup { d \in RegNames \X RegNames : d[1] # d[2] }

\* Subclasses of BaseLifecycleComponent with the attributes the registry
\* reads; priority NORMAL (20) is the default of the base class.
ComponentClasses == [name : RegNames, depends_on : DependsLists, priority : {20}]

\* validate_dependencies has not run on the present registrations.
NoOutcome == [returned |-> "-", raised |-> "-", kind |-> "-", path |-> <<>>]

\* A subclass that does not set name inherits "UnnamedComponent" (base.py
\* line 50).
UnnamedClasses == [name : {"UnnamedComponent"}, depends_on : {<<>>}, priority : {20}]

\* register has not been called.
NoRegister == [kind |-> "-", name |-> "-", same_class |-> FALSE]

\* The class attributes of lines 21-22.
RegistryInit ==
    /\ reg_components = <<>>
    /\ reg_component_map = <<>>
    /\ reg_outcome = NoOutcome
    /\ reg_registered = NoRegister

\* ------------------------------------------------- lifespan manager: data

\* No manager method is running.
NoRun == [pc |-> "idle", batches |-> <<>>, batch |-> 0, i |-> 0, started |-> 0,
          results |-> <<>>, failed |-> <<>>, raised |-> "-", returned |-> "-",
          app |-> "created", checks |-> 0]

\* LifespanManager.__init__ (lines 52-64).
NewManager(parallel, fail_fast) ==
    [parallel_startup |-> parallel, fail_on_component_error |-> fail_fast,
     components |-> <<>>, successful_components |-> 0, failed_components |-> 0]

\* A manager constructed with the defaults of lines 40-41, no method running.
ManagerInit ==
    /\ mgr = NewManager(TRUE, FALSE)
    /\ mgr_run = NoRun
    /\ mgr_events = <<>>

LifespanInit == HealthRegistryInit /\ RegistryInit /\ ManagerInit

\* ------------------------------------------------------ gRPC server: data

\* No call of start or stop has ended.
NoServerCall == [op |-> "-", outcome |-> "-", raised |-> FALSE, before |-> 0]

\* GRPCServer.__init__ (lines 92-103): server is None (0); the grpc.Server
\* objects it creates later are numbered from 1.
GRPCServerInit ==
    /\ grpc_server = [server |-> 0, started |-> FALSE, created |-> 0,
                      cleanups |-> 0, calls |-> 0]
    /\ grpc_returned = NoServerCall

\* -------------------------------------------------------------------- Init

\* VideoStreamService.__init__, with no call opened.
\* Workers of the gRPC thread pool that call the shared service.
Workers == {1, 2}

\* FaceRecognitionService.__init__ (lines 46-50): no model is loaded.  The
\* constructed detector and embedder objects are numbered from 1; 0 is None.
FaceInit ==
    /\ face_service = [detector |-> 0, embedder |-> 0, detectors_built |-> 0,
                       embedders_built |-> 0, _frame_counter |-> 0]
    /\ face_call = [w \in Workers |-> [pc |-> "idle", detector_used |-> 0]]
    /\ face_returned = <<>>

StreamInit ==
    /\ last_process_time = <<>>
    /\ pipeline_calls = 0
    /\ pc = [c \in Calls |-> "idle"]
    /\ active = [c \in Calls |-> TRUE]
    /\ req = [c \in Calls |-> NoRequest]
    /\ last_time = [c \in Calls |-> 0]
    /\ camera_metrics = [c \in Calls |-> <<>>]
    /\ log = [c \in Calls |-> <<>>]
    /\ resp = [c \in Calls |-> NoResponse]
    /\ nresp = [c \in Calls |-> 0]
    /\ summaries = [c \in Calls |-> [cam \in CameraIds |-> 0]]
    /\ status = [c \in Calls |-> "none"]

Init == StreamInit /\ LifespanInit /\ FaceInit /\ GRPCServerInit

\* ----------------------------------------------------------------- actions

\* The fields lines 117-119 read from a request; frame_id numbers the call's
\* requests.  image_jpeg is read at line 142, by the actions that decode it.
Requests(c) ==
    { [camera_id |-> raw, frame_id |-> Len(log[c]) + 1, timestamp_ms |-> ts] :
        raw \in RawCameraIds, ts \in Timestamps }

\* The log entry of the frame being handled, with the path it took.
LogFrame(l, path) == [l EXCEPT ![Len(l)].path = path]

\* The generator's finally block (and the explicit call on the cancel path).
Finally(c, times) ==
    summaries' = [summaries EXCEPT ![c] =
        IF times = 2
        THEN _log_final_metrics(_log_final_metrics(@, camera_metrics[c]),
                                camera_metrics[c])
        ELSE _log_final_metrics(@, camera_metrics[c])]

\* A client opens a StreamFrames call: line 106, camera_metrics = {}.  The calls
\* are numbered in the order in which they are opened.
StartCall(c) ==
    /\ pc[c] = "idle"
    /\ \A d \in Calls : d < c => pc[d] # "idle"
    /\ pc' = [pc EXCEPT ![c] = "iter"]
    /\ UNCHANGED <<last_process_time, pipeline_calls, active, req, last_time,
                   camera_metrics, log, resp, nresp, summaries, status,
                   lifespan_vars, face_vars>>

\* The client cancels, or the transport loses the peer.  The handler reads
\* context.is_active() only at line 111, so a cancellation that arrives while a
\* frame is being handled is seen as one that arrives right after its yield.
ClientCancel(c) ==
    /\ pc[c] = "iter"
    /\ active[c]
    /\ active' = [active EXCEPT ![c] = FALSE]
    /\ UNCHANGED <<last_process_time, pipeline_calls, pc, req, last_time,
                   camera_metrics, log, resp, nresp, summaries, status,
                   lifespan_vars, face_vars>>

\* Faulty variant: the loop does not look at context.is_active().
NextRequest_NoActiveCheck(c) ==
    /\ pc[c] = "iter"
    /\ TotalFrames(log, Calls) < MaxFrames
    /\ \E r \in Requests(c) :
        LET cam == CameraId(r) IN
        /\ req' = [req EXCEPT ![c] = r]
        /\ camera_metrics' = [camera_metrics EXCEPT ![c] =
               IF cam \in DOMAIN @ THEN @ ELSE DictSet(@, cam, NewCameraMetrics(cam))]
        /\ last_time' = [last_time EXCEPT ![c] = DictGet(last_process_time, cam, 0)]
        /\ log' = [log EXCEPT ![c] =
               Append(@, [camera_id |-> cam, timestamp_ms |-> r.timestamp_ms,
                          path |-> "pending"])]
    /\ pc' = [pc EXCEPT ![c] = "frame"]
    /\ UNCHANGED <<last_process_time, pipeline_calls, active, resp, nresp,
                   summaries, status,
                   lifespan_vars, face_vars>>

\* Lines 109-127 and 427: the iterator hands over a request while the call is
\* active; the fields are extracted, the camera's metrics are created on its
\* first frame, and _should_process_frame reads the shared dict.
NextRequest(c) ==
    /\ pc[c] = "iter"
    /\ active[c]
    /\ TotalFrames(log, Calls) < MaxFrames
    /\ \E r \in Requests(c) :
        LET cam == CameraId(r) IN
        /\ req' = [req EXCEPT ![c] = r]
        /\ camera_metrics' = [camera_metrics EXCEPT ![c] =
               IF cam \in DOMAIN @ THEN @ ELSE DictSet(@, cam, NewCameraMetrics(cam))]
        /\ last_time' = [last_time EXCEPT ![c] = DictGet(last_process_time, cam, 0)]
        /\ log' = [log EXCEPT ![c] =
               Append(@, [camera_id |-> cam, timestamp_ms |-> r.timestamp_ms,
                          path |-> "pending"])]
    /\ pc' = [pc EXCEPT ![c] = "frame"]
    /\ UNCHANGED <<last_process_time, pipeline_calls, active, resp, nresp,
                   summaries, status,
                   lifespan_vars, face_vars>>

\* Lines 111-114 and 207-209: the iterator hands over a request and
\* context.is_active() is false: _log_final_metrics, return, and the finally
\* block runs _log_final_metrics again.  The request's fields are never read.
Cancelled(c) ==
    /\ pc[c] = "iter"
    /\ ~ active[c]
    /\ Finally(c, 2)
    /\ pc' = [pc EXCEPT ![c] = "done"]
    /\ status' = [status EXCEPT ![c] = "CANCELLED"]
    /\ UNCHANGED <<last_process_time, pipeline_calls, active, req, last_time,
                   camera_metrics, log, resp, nresp,
                   lifespan_vars, face_vars>>

\* Line 109 ends the loop (StopIteration), then the finally block.
EndOfInput(c) ==
    /\ pc[c] = "iter"
    /\ Finally(c, 1)
    /\ pc' = [pc EXCEPT ![c] = "done"]
    /\ status' = [status EXCEPT ![c] = "OK"]
    /\ UNCHANGED <<last_process_time, pipeline_calls, active, req, last_time,
                   camera_metrics, log, resp, nresp,
                   lifespan_vars, face_vars>>

\* Faulty variant: the outer except logs the exception and does not abort, so
\* the call ends as if its input had ended.
Abort_NoStatus(c) ==
    /\ Finally(c, 1)
    /\ pc' = [pc EXCEPT ![c] = "done"]
    /\ status' = [status EXCEPT ![c] = "OK"]

\* Lines 203-209: an exception other than process_frame's reaches the outer
\* except: context.abort(INTERNAL), which raises, then the finally block.
Abort(c) ==
    /\ Finally(c, 1)
    /\ pc' = [pc EXCEPT ![c] = "done"]
    /\ status' = [status EXCEPT ![c] = "INTERNAL"]

\* The request iterator raises.
IteratorRaises(c) ==
    /\ pc[c] = "iter"
    /\ Abort(c)
    /\ UNCHANGED <<last_process_time, pipeline_calls, active, req, last_time,
                   camera_metrics, log, resp, nresp,
                   lifespan_vars, face_vars>>

\* Yield one response and go back to the for statement.  The locals of the
\* finished iteration (req, last_time) are dead: the next iteration overwrites them.
Yield(c, r, path) ==
    /\ req' = [req EXCEPT ![c] = NoRequest]
    /\ last_time' = [last_time EXCEPT ![c] = 0]
    /\ resp' = [resp EXCEPT ![c] = r]
    /\ nresp' = [nresp EXCEPT ![c] = @ + 1]
    /\ log' = [log EXCEPT ![c] = LogFrame(@, path)]
    /\ pc' = [pc EXCEPT ![c] = "iter"]

\* Lines 128-139 and 429-430: the frame came too early.
Throttled(c) ==
    LET r == req[c]
        cam == CameraId(r)
    IN
    /\ pc[c] = "frame"
    /\ ~ _should_process_frame(r.timestamp_ms, last_time[c])
    /\ camera_metrics' = [camera_metrics EXCEPT ![c][cam].frames_dropped = @ + 1]
    /\ Yield(c, _create_throttled_response(cam, r.frame_id), "throttled")
    /\ UNCHANGED <<last_process_time, pipeline_calls, active, summaries, status,
                   lifespan_vars, face_vars>>

\* Lines 432-433 and 142-157: the frame passes the throttle and does not decode.
DecodeFailed(c) ==
    LET r == req[c]
        cam == CameraId(r)
    IN
    /\ pc[c] = "frame"
    /\ _should_process_frame(r.timestamp_ms, last_time[c])
    /\ last_process_time' = DictSet(last_process_time, cam, r.timestamp_ms)
    /\ \E jpeg \in Payloads : ~ _decode_jpeg(jpeg)
    /\ Yield(c, _create_error_response(cam, r.frame_id, "Failed to decode JPEG frame"),
             "decode_error")
    /\ UNCHANGED <<pipeline_calls, active, camera_metrics, summaries, status,
                   lifespan_vars, face_vars>>

\* Faulty variant: process_frame is called outside a try of its own, so its
\* exception reaches the outer except.
ProcessRaises_Propagates(c) ==
    LET r == req[c]
        cam == CameraId(r)
    IN
    /\ pc[c] = "frame"
    /\ _should_process_frame(r.timestamp_ms, last_time[c])
    /\ last_process_time' = DictSet(last_process_time, cam, r.timestamp_ms)
    /\ \E jpeg \in Payloads : _decode_jpeg(jpeg)
    /\ pipeline_calls' = pipeline_calls + 1
    /\ log' = [log EXCEPT ![c] = LogFrame(@, "process_error")]
    /\ req' = [req EXCEPT ![c] = NoRequest]
    /\ last_time' = [last_time EXCEPT ![c] = 0]
    /\ Abort(c)
    /\ UNCHANGED <<active, camera_metrics, resp, nresp,
                   lifespan_vars, face_vars>>

\* Lines 160-179: process_frame raises.
ProcessRaises(c) ==
    LET r == req[c]
        cam == CameraId(r)
    IN
    /\ pc[c] = "frame"
    /\ _should_process_frame(r.timestamp_ms, last_time[c])
    /\ last_process_time' = DictSet(last_process_time, cam, r.timestamp_ms)
    /\ \E jpeg \in Payloads : _decode_jpeg(jpeg)
    /\ pipeline_calls' = pipeline_calls + 1
    /\ Yield(c, _create_error_response(cam, r.frame_id, "Processing failed"),
             "process_error")
    /\ UNCHANGED <<active, camera_metrics, summaries, status,
                   lifespan_vars, face_vars>>

Results == [time_ms : ProcessingTimes, faces : FaceLists]

\* Lines 161-201: process_frame returns a result, the response is built, the
\* metrics are updated and the response is yielded.
FrameProcessed(c) ==
    LET r == req[c]
        cam == CameraId(r)
    IN
    /\ pc[c] = "frame"
    /\ _should_process_frame(r.timestamp_ms, last_time[c])
    /\ last_process_time' = DictSet(last_process_time, cam, r.timestamp_ms)
    /\ \E jpeg \in Payloads : _decode_jpeg(jpeg)
    /\ pipeline_calls' = pipeline_calls + 1
    /\ \E result \in Results :
        LET out == _build_response(result, cam, r.frame_id) IN
        /\ camera_metrics' = [camera_metrics EXCEPT ![c][cam] =
               add_frame(@, out.processing_time_ms, out.faces)]
        /\ Yield(c, out, "ok")
    /\ UNCHANGED <<active, summaries, status,
                   lifespan_vars, face_vars>>

\* Lines 182-191 raise (response building, metrics update): the exception is
\* outside the inner try and reaches the outer except.
BuildRaises(c) ==
    LET r == req[c]
        cam == CameraId(r)
    IN
    /\ pc[c] = "frame"
    /\ _should_process_frame(r.timestamp_ms, last_time[c])
    /\ last_process_time' = DictSet(last_process_time, cam, r.timestamp_ms)
    /\ \E jpeg \in Payloads : _decode_jpeg(jpeg)
    /\ pipeline_calls' = pipeline_calls + 1
    /\ log' = [log EXCEPT ![c] = LogFrame(@, "fatal")]
    /\ req' = [req EXCEPT ![c] = NoRequest]
    /\ last_time' = [last_time EXCEPT ![c] = 0]
    /\ Abort(c)
    /\ UNCHANGED <<active, camera_metrics, resp, nresp,
                   lifespan_vars, face_vars>>

Next ==
    \E c \in Calls :
        \/ StartCall(c)
        \/ ClientCancel(c)
        \/ NextRequest(c)
        \/ Cancelled(c)
        \/ EndOfInput(c)
        \/ IteratorRaises(c)
        \/ Throttled(c)
        \/ DecodeFailed(c)
        \/ ProcessRaises(c)
        \/ FrameProcessed(c)
        \/ BuildRaises(c)

Spec == Init /\ [][Next]_vars

\* ---------------------------------------------- health registry: actions

\* Update calls started so far: those that returned and those in progress.
RECURSIVE HealthCallsReturned(_)
HealthCallsReturned(S) ==
    IF S = {} THEN 0
    ELSE LET n == CHOOSE x \in S : TRUE
         IN Len(hr_hist[n]) + HealthCallsReturned(S \ {n})

HealthCallsStarted ==
    HealthCallsReturned(DOMAIN hr_hist)
        + Cardinality({ t \in HealthThreads : hr_call[t] \in UpdateCalls })

\* A thread calls register_component, mark_healthy, mark_degraded or
\* mark_failed and arrives at the method's with statement.
CallUpdate(t) ==
    /\ hr_pc[t] = "idle"
    /\ HealthCallsStarted < MaxHealthCalls
    /\ \E call \in UpdateCalls : hr_call' = [hr_call EXCEPT ![t] = call]
    /\ hr_pc' = [hr_pc EXCEPT ![t] = "with"]
    /\ UNCHANGED <<hr_components, hr_lock, hr_returned, hr_hist, hr_created,
                   non_health_vars>>

\* A thread calls get_overall_status or get_health_summary.
CallRead(t) ==
    /\ hr_pc[t] = "idle"
    /\ \E call \in ReadCalls : hr_call' = [hr_call EXCEPT ![t] = call]
    /\ hr_pc' = [hr_pc EXCEPT ![t] = "with"]
    /\ UNCHANGED <<hr_components, hr_lock, hr_returned, hr_hist, hr_created,
                   non_health_vars>>

\* with self._component_lock (lines 90, 121, 149, 195, 219): the thread
\* enters when no other thread owns the lock.
EnterLock(t) ==
    /\ hr_pc[t] = "with"
    /\ CanAcquire(hr_lock, t)
    /\ hr_lock' = Acquired(hr_lock, t)
    /\ hr_pc' = [hr_pc EXCEPT ![t] =
           CASE hr_call[t].op = "get_overall_status" -> "overall"
             [] hr_call[t].op \in {"get_health_summary", "GET"} -> "summary"
             [] OTHER -> "check"]
    /\ UNCHANGED <<hr_components, hr_call, hr_returned, hr_hist, hr_created,
                   non_health_vars>>

\* if name in self._components (lines 91, 122, 150).
CheckRegistered(t) ==
    /\ hr_pc[t] = "check"
    /\ hr_pc' = [hr_pc EXCEPT ![t] =
           IF hr_call[t].name \in DOMAIN hr_components THEN "assign" ELSE "create"]
    /\ UNCHANGED <<hr_components, hr_lock, hr_call, hr_returned, hr_hist,
                   hr_created, non_health_vars>>

\* The with block is left and the method returns.
ReturnUpdate(t) ==
    /\ hr_lock' = Released(hr_lock)
    /\ hr_hist' = [hr_hist EXCEPT ![hr_call[t].name] = Append(@, hr_call[t])]
    /\ hr_pc' = [hr_pc EXCEPT ![t] = "idle"]
    /\ hr_call' = [hr_call EXCEPT ![t] = NoCall]

\* Known component: the status (and error message) is assigned.
UpdateStatus(t) ==
    /\ hr_pc[t] = "assign"
    /\ hr_components' = [hr_components EXCEPT ![hr_call[t].name] =
           AssignStatus(@, hr_call[t])]
    /\ hr_pc' = [hr_pc EXCEPT ![t] = "count"]
    /\ UNCHANGED <<hr_lock, hr_call, hr_returned, hr_hist, hr_created, non_health_vars>>

\* Known component: the counters are updated, the method returns.
UpdateCounters(t) ==
    /\ hr_pc[t] = "count"
    /\ hr_components' = [hr_components EXCEPT ![hr_call[t].name] =
           CountCheck(@, hr_call[t])]
    /\ ReturnUpdate(t)
    /\ UNCHANGED <<hr_returned, hr_created, non_health_vars>>

\* Unknown component: a ComponentHealth is constructed and stored under the
\* name, the method returns.
CreateEntry(t) ==
    /\ hr_pc[t] = "create"
    /\ hr_components' = DictSet(hr_components, hr_call[t].name,
                                NewComponentHealth(hr_call[t]))
    /\ hr_created' = [hr_created EXCEPT ![hr_call[t].name] = @ + 1]
    /\ ReturnUpdate(t)
    /\ UNCHANGED <<hr_returned, non_health_vars>>

\* A reading method returns value and leaves its with block.
ReturnRead(t, value) ==
    /\ hr_returned' = value
    /\ hr_lock' = Released(hr_lock)
    /\ hr_pc' = [hr_pc EXCEPT ![t] = "idle"]
    /\ hr_call' = [hr_call EXCEPT ![t] = NoCall]
    /\ UNCHANGED <<hr_components, hr_hist, hr_created, non_health_vars>>

\* get_overall_status lines 196-210.
ReturnOverall(t) ==
    /\ hr_pc[t] = "overall"
    /\ ReturnRead(t, [op |-> "get_overall_status",
                      overall |-> get_overall_status(hr_components),
                      components |-> <<>>])

\* get_health_summary line 220: overall = self.get_overall_status(), which
\* takes the lock again at line 195 (the thread owns it) and gives it back.
SummaryOverall(t) ==
    /\ hr_pc[t] = "summary"
    /\ CanAcquire(hr_lock, t)
    /\ hr_lock' = Released(Acquired(hr_lock, t))
    /\ hr_call' = [hr_call EXCEPT ![t].overall = get_overall_status(hr_components)]
    /\ hr_pc' = [hr_pc EXCEPT ![t] = "components"]
    /\ UNCHANGED <<hr_components, hr_returned, hr_hist, hr_created, non_health_vars>>

\* get_health_summary lines 221-237: the component details are collected and
\* the summary is returned.
ReturnSummary(t) ==
    /\ hr_pc[t] = "components"
    /\ hr_call[t].op = "get_health_summary"
    /\ ReturnRead(t, [op |-> "get_health_summary",
                      overall |-> hr_call[t].overall,
                      components |-> hr_components])

\* A GET arrives.  A path without a route is answered 404; the handler
\* health_check calls get_health_summary (health.py lines 29-30) and arrives
\* at its with statement.
GetRequest(t) ==
    /\ hr_pc[t] = "idle"
    /\ \E path \in Paths :
        IF RoutedTo(path) = "health_check"
        THEN /\ hr_call' = [hr_call EXCEPT ![t] =
                     [op |-> "GET", name |-> path, status |-> "-", overall |-> "-"]]
             /\ hr_pc' = [hr_pc EXCEPT ![t] = "with"]
             /\ UNCHANGED hr_returned
        ELSE /\ hr_returned' = NotFound(path)
             /\ UNCHANGED <<hr_pc, hr_call>>
    /\ UNCHANGED <<hr_components, hr_lock, hr_hist, hr_created, non_health_vars>>

\* get_health_summary lines 221-237, called by the handler: the summary is
\* returned to health_check and the with block is left.
HandlerSummary(t) ==
    /\ hr_pc[t] = "components"
    /\ hr_call[t].op = "GET"
    /\ hr_call' = [hr_call EXCEPT ![t] =
           [op |-> "GET", name |-> hr_call[t].name, status |-> "-",
            overall |-> hr_call[t].overall, components |-> hr_components]]
    /\ hr_lock' = Released(hr_lock)
    /\ hr_pc' = [hr_pc EXCEPT ![t] = "respond"]
    /\ UNCHANGED <<hr_components, hr_returned, hr_hist, hr_created, non_health_vars>>

\* health_check lines 32-42: the response is built from the summary.
Respond(t) ==
    /\ hr_pc[t] = "respond"
    /\ hr_returned' = health_check(hr_call[t].name, hr_call[t])
    /\ hr_pc' = [hr_pc EXCEPT ![t] = "idle"]
    /\ hr_call' = [hr_call EXCEPT ![t] = NoCall]
    /\ UNCHANGED <<hr_components, hr_lock, hr_hist, hr_created, non_health_vars>>

HealthNext ==
    \E t \in HealthThreads :
        \/ CallUpdate(t)
        \/ CallRead(t)
        \/ EnterLock(t)
        \/ CheckRegistered(t)
        \/ UpdateStatus(t)
        \/ UpdateCounters(t)
        \/ CreateEntry(t)
        \/ ReturnOverall(t)
        \/ SummaryOverall(t)
        \/ ReturnSummary(t)

HealthSpec == Init /\ [][HealthNext]_vars

\* ------------------------------- health registry: reports on several names

\* Component names reported, and the number of reports made.
ReportNames == {"grpc_server", "detection_model"}

MaxReports == 3

ReportCalls ==
    { [call EXCEPT !.name = n] : call \in UpdateCalls, n \in ReportNames }

\* The registry of a process in which nothing was reported yet.
ReportInit ==
    /\ StreamInit
    /\ FaceInit
    /\ GRPCServerInit
    /\ RegistryInit
    /\ ManagerInit
    /\ hr_components = <<>>
    /\ hr_lock = [owner |-> 0, depth |-> 0]
    /\ hr_pc = [t \in HealthThreads |-> "idle"]
    /\ hr_call = [t \in HealthThreads |-> NoCall]
    /\ hr_returned = NoReturn
    /\ hr_hist = [n \in ReportNames |-> <<>>]
    /\ hr_created = [n \in ReportNames |-> 0]

\* One call of register_component, mark_healthy, mark_degraded or mark_failed
\* from its with statement to its return (lines 90-106, 121-138, 149-166); the
\* lock keeps other calls out of the block.
Report ==
    /\ HealthCallsReturned(ReportNames) < MaxReports
    /\ \E call \in ReportCalls :
        /\ IF call.name \in DOMAIN hr_components
           THEN /\ hr_components' = [hr_components EXCEPT ![call.name] =
                       CountCheck(AssignStatus(@, call), call)]
                /\ UNCHANGED hr_created
           ELSE /\ hr_components' = DictSet(hr_components, call.name,
                                            NewComponentHealth(call))
                /\ hr_created' = [hr_created EXCEPT ![call.name] = @ + 1]
        /\ hr_hist' = [hr_hist EXCEPT ![call.name] = Append(@, call)]
    /\ UNCHANGED <<hr_lock, hr_pc, hr_call, hr_returned, non_health_vars>>

ReportNext == Report

ReportSpec == ReportInit /\ [][ReportNext]_vars

\* GET requests served while other threads update the registry.
RouteNext ==
    \E t \in HealthThreads :
        \/ CallUpdate(t)
        \/ EnterLock(t)
        \/ CheckRegistered(t)
        \/ UpdateStatus(t)
        \/ UpdateCounters(t)
        \/ CreateEntry(t)
        \/ SummaryOverall(t)
        \/ GetRequest(t)
        \/ HandlerSummary(t)
        \/ Respond(t)

RouteSpec == Init /\ [][RouteNext]_vars

\* Registries to aggregate: any subset of these names, each registered once
\* by register_component with any status.
OverallNames == {"grpc_server", "detection_model", "face_service"}

Registries ==
    UNION { [S -> { NewComponentHealth([op |-> "register_component", name |-> "-",
                                        status |-> st, overall |-> "-"]) :
                    st \in HealthStatuses }] : S \in SUBSET OverallNames }

OverallInit ==
    /\ StreamInit
    /\ FaceInit
    /\ GRPCServerInit
    /\ RegistryInit
    /\ ManagerInit
    /\ hr_components \in Registries
    /\ hr_lock = [owner |-> 0, depth |-> 0]
    /\ hr_pc = [t \in HealthThreads |-> "idle"]
    /\ hr_call = [t \in HealthThreads |-> NoCall]
    /\ hr_returned = NoReturn
    /\ hr_hist = [n \in DOMAIN hr_components |->
                     << [op |-> "register_component", name |-> n,
                         status |-> hr_components[n].status, overall |-> "-"] >>]
    /\ hr_created = [n \in DOMAIN hr_components |-> 1]

\* The reading methods alone, on a registry that is not being updated.
OverallNext ==
    \E t \in HealthThreads :
        \/ CallRead(t)
        \/ EnterLock(t)
        \/ ReturnOverall(t)
        \/ SummaryOverall(t)
        \/ ReturnSummary(t)

OverallSpec == OverallInit /\ [][OverallNext]_vars

\* ------------------------------------------- component registry: actions

\* The keys of _component_map in insertion order: register adds a name to the
\* list and to the dict together and nothing removes one.
KeysOf(components) == [i \in 1..Len(components) |-> components[i].name]

\* Faulty variant: the whole path is reported.
IndexOf_Zero(path, x) == 1

\* path.index(dep) (line 153).
IndexOf(path, x) ==
    CHOOSE i \in 1..Len(path) : path[i] = x /\ \A j \in 1..(i - 1) : path[j] # x

RECURSIVE visit(_, _, _)
RECURSIVE visit_deps(_, _, _, _)
RECURSIVE visit_deps_NoStackCheck(_, _, _, _)

\* Faulty variant: a visited dependency is skipped without looking at the
\* recursion stack.
visit_deps_NoStackCheck(map, deps, i, st) ==
    IF i > Len(deps) THEN st
    ELSE IF deps[i] \notin st.visited
    THEN visit_deps_NoStackCheck(map, deps, i + 1, visit(map, deps[i], st))
    ELSE visit_deps_NoStackCheck(map, deps, i + 1, st)

\* The for loop of visit (lines 147-155) from the i-th dependency on.  st holds
\* visited, rec_stack and path, and cycle: the path of the ValueError raised,
\* empty while none is raised.
visit_deps(map, deps, i, st) ==
    IF st.cycle # <<>> \/ i > Len(deps) THEN st
    ELSE IF deps[i] \notin st.visited
    THEN visit_deps(map, deps, i + 1, visit(map, deps[i], st))
    ELSE IF deps[i] \in st.rec_stack
    THEN [st EXCEPT !.cycle =
             SubSeq(st.path, IndexOf(st.path, deps[i]), Len(st.path)) \o <<deps[i]>>]
    ELSE visit_deps(map, deps, i + 1, st)

\* visit (lines 140-159).
visit(map, node, st) ==
    LET entered == [st EXCEPT !.visited = @ \cup {node},
                              !.rec_stack = @ \cup {node},
                              !.path = Append(@, node)]
        deps == IF node \in DOMAIN map THEN map[node].depends_on ELSE <<>>
        after == visit_deps(map, deps, 1, entered)
    IN IF after.cycle # <<>> THEN after
       ELSE [after EXCEPT !.path = SubSeq(@, 1, Len(@) - 1),
                          !.rec_stack = @ \ {node}]

\* The loop of lines 161-164 from the i-th key on: visited is shared by the
\* roots, rec_stack and path are new for each.  The value is the cycle of the
\* ValueError raised, or the empty path.
RECURSIVE VisitRoots(_, _, _, _)
VisitRoots(map, keys, i, visited) ==
    IF i > Len(keys) THEN <<>>
    ELSE IF keys[i] \in visited THEN VisitRoots(map, keys, i + 1, visited)
    ELSE LET st == visit(map, keys[i], [visited |-> visited, rec_stack |-> {},
                                        path |-> <<>>, cycle |-> <<>>])
         IN IF st.cycle # <<>> THEN st.cycle
            ELSE VisitRoots(map, keys, i + 1, st.visited)

\* _check_circular_dependencies (lines 133-164).
_check_circular_dependencies(map, keys) == VisitRoots(map, keys, 1, {})

\* The (component, dependency) positions whose dependency is not registered.
MissingAt(components, map) ==
    { p \in (1..Len(components)) \X (1..2) :
        /\ p[2] <= Len(components[p[1]].depends_on)
        /\ components[p[1]].depends_on[p[2]] \notin DOMAIN map }

\* validate_dependencies (lines 100-130): the first missing dependency in list
\* order raises, else the first cycle found raises, else True.
validate_dependencies(components, map) ==
    LET missing == MissingAt(components, map)
        first == CHOOSE p \in missing : \A q \in missing :
                    p[1] < q[1] \/ (p[1] = q[1] /\ p[2] <= q[2])
        cycle == _check_circular_dependencies(map, KeysOf(components))
    IN IF missing # {}
       THEN [returned |-> "-", raised |-> "ValueError", kind |-> "missing",
             path |-> <<components[first[1]].name,
                        components[first[1]].depends_on[first[2]]>>]
       ELSE IF cycle # <<>>
       THEN [returned |-> "-", raised |-> "ValueError", kind |-> "circular",
             path |-> cycle]
       ELSE [returned |-> "True", raised |-> "-", kind |-> "-", path |-> <<>>]

\* How a call of register ended: "ValueError", "duplicate" (the warning of
\* lines 57-64 names the class found and the new class; same_class tells
\* whether they are one class) or "registered".
Registered(kind, component_class) ==
    [kind |-> kind, name |-> component_class.name,
     same_class |-> /\ kind = "duplicate"
                    /\ reg_component_map[component_class.name] = component_class]

\* Faulty variant: a class of a registered name replaces the class in the map.
register_LastWins(component_class) ==
    /\ IF component_class.name = "UnnamedComponent"
       THEN /\ reg_registered' = Registered("ValueError", component_class)
            /\ UNCHANGED <<reg_components, reg_component_map, reg_outcome>>
       ELSE IF component_class.name \in DOMAIN reg_component_map
       THEN /\ reg_registered' = Registered("duplicate", component_class)
            /\ reg_component_map' =
                   DictSet(reg_component_map, component_class.name, component_class)
            /\ UNCHANGED <<reg_components, reg_outcome>>
       ELSE /\ reg_components' = Append(reg_components, component_class)
            /\ reg_component_map' =
                   DictSet(reg_component_map, component_class.name, component_class)
            /\ reg_outcome' = NoOutcome
            /\ reg_registered' = Registered("registered", component_class)
    /\ UNCHANGED non_registry_vars

\* ComponentRegistry.register (lines 30-79) with a subclass of
\* BaseLifecycleComponent: a class without its own name raises ValueError
\* (lines 50-53), a name already registered is skipped with a warning (lines
\* 56-65), another class is appended to the list and put into the map.
register(component_class) ==
    /\ IF component_class.name = "UnnamedComponent"
       THEN /\ reg_registered' = Registered("ValueError", component_class)
            /\ UNCHANGED <<reg_components, reg_component_map, reg_outcome>>
       ELSE IF component_class.name \in DOMAIN reg_component_map
       THEN /\ reg_registered' = Registered("duplicate", component_class)
            /\ UNCHANGED <<reg_components, reg_component_map, reg_outcome>>
       ELSE /\ reg_components' = Append(reg_components, component_class)
            /\ reg_component_map' =
                   DictSet(reg_component_map, component_class.name, component_class)
            /\ reg_outcome' = NoOutcome
            /\ reg_registered' = Registered("registered", component_class)
    /\ UNCHANGED non_registry_vars

\* A caller runs validate_dependencies.
ValidateDependencies ==
    /\ reg_outcome' = validate_dependencies(reg_components, reg_component_map)
    /\ UNCHANGED <<reg_components, reg_component_map, reg_registered, non_registry_vars>>

RegistryNext ==
    \/ \E component_class \in ComponentClasses \cup UnnamedClasses :
          register(component_class)
    \/ ValidateDependencies

RegistrySpec == Init /\ [][RegistryNext]_vars

\* ------------------------------------ lifespan manager: initialization

\* Values of the priority attribute used by the manager's classes: HIGH and
\* NORMAL (ComponentPriority, lines 28-31 of base.py).
Priorities == {10, 20}

\* The component classes the manager is run with.
ManagedClasses == [name : RegNames, depends_on : DependsLists, priority : Priorities]

\* Position of a name in the order in which Python compares the strings.
NameRank(n) == CASE n = "A" -> 1 [] n = "B" -> 2 [] OTHER -> 3

\* The sort key (c.priority.value, c.name) of registry.py line 97 and
\* manager.py line 106: c comes before d.
KeyBefore(c, d) ==
    \/ c.priority < d.priority
    \/ c.priority = d.priority /\ NameRank(c.name) < NameRank(d.name)

\* sorted(list, key=...) and list.sort(key=...): stable, smallest key first.
RECURSIVE SortedByKey(_)
SortedByKey(list) ==
    IF list = <<>> THEN <<>>
    ELSE LET minima == { i \in 1..Len(list) :
                           \A j \in 1..Len(list) : ~ KeyBefore(list[j], list[i]) }
             i == CHOOSE i \in minima : \A j \in minima : i <= j
         IN <<list[i]>> \o SortedByKey(SubSeq(list, 1, i - 1)
                                        \o SubSeq(list, i + 1, Len(list)))

\* ComponentRegistry.get_sorted_by_priority (lines 92-97).
get_sorted_by_priority(components) == SortedByKey(components)

NamesOf(list) == { list[i].name : i \in 1..Len(list) }

\* Batches of the components of remaining, given the names scheduled so far:
\* the components whose dependencies are all scheduled form the next batch;
\* when there is none while components remain, a configuration error naming
\* the stuck components is raised.
RECURSIVE dependency_batches(_, _)
dependency_batches(remaining, scheduled) ==
    LET Ready(c) == \A i \in 1..Len(c.depends_on) : c.depends_on[i] \in scheduled
        Waits(c) == ~ Ready(c)
        batch == SelectSeq(remaining, Ready)
        rest == dependency_batches(SelectSeq(remaining, Waits),
                                   scheduled \cup NamesOf(batch))
    IN IF remaining = <<>> THEN [batches |-> <<>>, raised |-> "-", stuck |-> {}]
       ELSE IF batch = <<>>
       THEN [batches |-> <<>>, raised |-> "ValueError", stuck |-> NamesOf(remaining)]
       ELSE IF rest.raised # "-" THEN rest
       ELSE [rest EXCEPT !.batches = <<batch>> \o @]

\* ComponentRegistry.get_dependency_batches(components), called at manager.py
\* line 96.
get_dependency_batches(components) == dependency_batches(components, {})

\* Faulty variant: the loop is left after the first batch.
CheckedBatches_FirstOnly(dependency_batches_list) ==
    IF dependency_batches_list = <<>> THEN [raised |-> "-", batches |-> <<>>]
    ELSE IF dependency_batches_list[1] = <<>>
    THEN [raised |-> "RuntimeError", batches |-> <<>>]
    ELSE [raised |-> "-", batches |-> <<SortedByKey(dependency_batches_list[1])>>]

\* The loop of lines 98-108: an empty batch raises RuntimeError, each other
\* batch is sorted by (priority, name) and appended to batches.
CheckedBatches(dependency_batches_list) ==
    IF \E i \in 1..Len(dependency_batches_list) : dependency_batches_list[i] = <<>>
    THEN [raised |-> "RuntimeError", batches |-> <<>>]
    ELSE [raised |-> "-",
          batches |-> [i \in 1..Len(dependency_batches_list) |->
                          SortedByKey(dependency_batches_list[i])]]

RECURSIVE Flatten(_)
Flatten(batches) ==
    IF batches = <<>> THEN <<>> ELSE batches[1] \o Flatten(Tail(batches))

\* Faulty variant: a new instance is Ready.
NewInstance_Ready(cls) ==
    [name |-> cls.name, priority |-> cls.priority, depends_on |-> cls.depends_on,
     state |-> "ready"]

\* component_cls() (line 129): BaseLifecycleComponent.__init__ sets the state.
NewInstance(cls) ==
    [name |-> cls.name, priority |-> cls.priority, depends_on |-> cls.depends_on,
     state |-> "uninitialized"]

\* The loop of lines 120-143 from the i-th class on.  The constructors of
\* the classes named in raising raise.  An instance is appended at line 130;
\* line 131 then calls self.health_registry.register, which HealthRegistry
\* does not define, so every pass ends in the except clause of line 133,
\* which raises RuntimeError when fail_on_component_error is set.  failed
\* lists the classes whose pass ended in the except clause.
RECURSIVE Instantiate(_, _, _, _, _, _)
Instantiate(order, i, fail_fast, raising, components, failed) ==
    IF i > Len(order)
    THEN [raised |-> "-", components |-> components, failed |-> failed]
    ELSE LET appended == IF order[i].name \in raising THEN components
                         ELSE Append(components, NewInstance(order[i]))
             excepted == Append(failed, order[i].name)
         IN IF fail_fast
            THEN [raised |-> "RuntimeError", components |-> appended,
                  failed |-> excepted]
            ELSE Instantiate(order, i + 1, fail_fast, raising, appended, excepted)

\* The body of initialize_components (lines 82-157) on a registry: the
\* exception it ends with ("-" if none), the batches it built and
\* self.components afterwards.  ValueError is re-raised (lines 151-153), any
\* other exception is replaced by a RuntimeError (lines 155-157).
InitializeComponents(components, map, fail_fast, raising) ==
    LET valid == validate_dependencies(components, map)
        component_classes == get_sorted_by_priority(components)
        found == get_dependency_batches(component_classes)
        checked == CheckedBatches(found.batches)
        made == Instantiate(Flatten(checked.batches), 1, fail_fast, raising,
                            <<>>, <<>>)
        Fails(e) == [raised |-> e, batches |-> <<>>, components |-> <<>>,
                     failed |-> <<>>]
    IN IF valid.raised # "-" THEN Fails("ValueError")
       ELSE IF component_classes = <<>> THEN Fails("RuntimeError")
       ELSE IF found.raised = "ValueError" THEN Fails("ValueError")
       ELSE IF checked.raised # "-" THEN Fails("RuntimeError")
       ELSE [raised |-> made.raised, batches |-> checked.batches,
             components |-> made.components, failed |-> made.failed]

\* Registries register can build from the manager's classes: classes with
\* different names, registered in ascending or in descending order of name.
ManagedRegistries ==
    { r \in UNION { [1..n -> ManagedClasses] : n \in 0..Cardinality(RegNames) } :
        \/ \A i, j \in 1..Len(r) : i < j => NameRank(r[i].name) < NameRank(r[j].name)
        \/ \A i, j \in 1..Len(r) : i < j => NameRank(r[i].name) > NameRank(r[j].name) }

\* A registry filled by the imports of the component modules, and a manager
\* constructed with either value of fail_on_component_error.
InitializeInit ==
    /\ StreamInit
    /\ FaceInit
    /\ GRPCServerInit
    /\ HealthRegistryInit
    /\ reg_components \in ManagedRegistries
    /\ reg_component_map = [n \in NamesOf(reg_components) |->
            reg_components[CHOOSE i \in 1..Len(reg_components) :
                               reg_components[i].name = n]]
    /\ reg_outcome = NoOutcome
    /\ reg_registered = NoRegister
    /\ \E fail_fast \in BOOLEAN : mgr = NewManager(TRUE, fail_fast)
    /\ mgr_run = NoRun
    /\ mgr_events = <<>>

\* initialize_components is run on the manager; the constructors of any of
\* the classes may raise.
initialize_components ==
    /\ mgr_run.pc = "idle"
    /\ \E raising \in SUBSET NamesOf(reg_components) :
        LET done == InitializeComponents(reg_components, reg_component_map,
                                         mgr.fail_on_component_error, raising)
        IN /\ mgr' = [mgr EXCEPT !.components = done.components]
           /\ mgr_run' = [NoRun EXCEPT !.pc = "initialized",
                                       !.batches = done.batches,
                                       !.raised = done.raised,
                                       !.failed = done.failed]
    /\ UNCHANGED <<mgr_events, registry_vars, non_manager_vars>>

\* A caller runs get_dependency_batches on the sorted classes without
\* validating the registry first.
GetDependencyBatches ==
    /\ mgr_run.pc = "idle"
    /\ LET found == get_dependency_batches(get_sorted_by_priority(reg_components))
       IN mgr_run' = [NoRun EXCEPT !.pc = "batches",
                                   !.batches = found.batches,
                                   !.raised = found.raised,
                                   !.failed = found.stuck]
    /\ UNCHANGED <<mgr, mgr_events, registry_vars, non_manager_vars>>

InitializeNext ==
    \/ initialize_components
    \/ GetDependencyBatches

InitializeSpec == InitializeInit /\ [][InitializeNext]_vars

\* ------------------------------ lifespan manager: startup and shutdown

Event(ev, n) == [ev |-> ev, name |-> n]

\* self._get_startup_batches() (line 177): the dependency batches of the
\* instances in self.components, each ordered by (priority, name); the
\* batches hold the components' names.
_get_startup_batches(components) ==
    LET found == get_dependency_batches(SortedByKey(components))
    IN [raised |-> found.raised,
        batches |-> [b \in 1..Len(found.batches) |->
                        [k \in 1..Len(found.batches[b]) |->
                            SortedByKey(found.batches[b])[k].name]]]

\* self._startup_component(c) (lines 207, 227) once c.startup() has returned
\* (ok) or raised: the exception is caught, the component is Ready or Failed
\* and the method returns whether it started.
_startup_component(c, ok) ==
    [component |-> [c EXCEPT !.state = IF ok THEN "ready" ELSE "failed"],
     success |-> ok, raised |-> "-"]

\* Faulty variant: an exception of shutdown() is not caught.
_shutdown_component_Propagates(c, ok) ==
    [component |-> [c EXCEPT !.state = IF ok THEN "stopped" ELSE "stopping"],
     raised |-> IF ok THEN "-" ELSE "Exception"]

\* self._shutdown_component(c) (line 298) once c.shutdown() has returned (ok)
\* or raised: the component is Stopping while shutdown() runs and Stopped
\* when it has returned; an exception is caught and logged.
_shutdown_component(c, ok) ==
    [component |-> [c EXCEPT !.state = IF ok THEN "stopped" ELSE "stopping"],
     raised |-> "-"]

\* mark_failed (health_registry.py lines 147-173) as one step of the thread
\* that holds the lock.
MarkFailed(components, n) ==
    LET call == [op |-> "mark_failed", name |-> n, status |-> "unhealthy",
                 overall |-> "-"]
    IN IF n \in DOMAIN components
       THEN [components EXCEPT ![n] = CountCheck(AssignStatus(@, call), call)]
       ELSE DictSet(components, n, NewComponentHealth(call))

IndexOfName(components, n) ==
    CHOOSE k \in 1..Len(components) : components[k].name = n

\* Faulty variant: any failure aborts the startup.
MustRaise_AnyFailure(manager, success) == ~ success

\* Faulty variant: no failure aborts the startup.
MustRaise_Never(manager, success) == FALSE

\* Lines 213-223 and 229-238: a failure raises RuntimeError when
\* fail_on_component_error is set.
MustRaise(manager, success) == ~ success /\ manager.fail_on_component_error

\* Faulty variant: the components are shut down in list order.
ShutdownOrder_Forward(components) == components

\* reversed(self.components) (line 297).
ShutdownOrder(components) ==
    [k \in 1..Len(components) |-> components[Len(components) + 1 - k]]

\* Registries that pass validate_dependencies.
ValidRegistries ==
    { r \in ManagedRegistries :
        /\ \A i, j \in 1..Len(r) : i < j => NameRank(r[i].name) < NameRank(r[j].name)
        /\ validate_dependencies(r, [n \in NamesOf(r) |->
               r[CHOOSE i \in 1..Len(r) : r[i].name = n]]).raised = "-" }

\* A manager that holds the instances of the classes of a valid registry in
\* the order in which lines 120-130 append them, with either value of
\* parallel_startup and of fail_on_component_error.
RunInit ==
    /\ StreamInit
    /\ FaceInit
    /\ GRPCServerInit
    /\ HealthRegistryInit
    /\ reg_components \in ValidRegistries
    /\ reg_component_map = [n \in NamesOf(reg_components) |->
            reg_components[CHOOSE i \in 1..Len(reg_components) :
                               reg_components[i].name = n]]
    /\ reg_outcome = NoOutcome
    /\ reg_registered = NoRegister
    /\ \E parallel, fail_fast \in BOOLEAN :
        mgr = [NewManager(parallel, fail_fast) EXCEPT !.components =
                  InitializeComponents(reg_components, reg_component_map,
                                       FALSE, {}).components]
    /\ mgr_run = NoRun
    /\ mgr_events = <<>>

\* startup_all raises: the except clause of lines 272-280 re-raises, the
\* lifespan logs and re-raises (lines 412-419), the application is not served.
StartupRaised(run) == [run EXCEPT !.pc = "raised", !.raised = "RuntimeError",
                                  !.app = "failed"]

\* Faulty variant: startup_all returns True whatever failed.
BatchDone_ReturnsTrue(run) ==
    IF run.batch < Len(run.batches)
    THEN [run EXCEPT !.batch = @ + 1, !.i = 1, !.started = 0,
                     !.results = [k \in 1..Len(run.batches[run.batch + 1]) |-> "-"]]
    ELSE [run EXCEPT !.pc = "returned", !.returned = TRUE, !.app = "serving"]

\* The batch is finished (lines 240-245): the next batch, or after the last
\* one lines 248-270 return all_successful and the lifespan yields (line 410).
BatchDone(run) ==
    IF run.batch < Len(run.batches)
    THEN [run EXCEPT !.batch = @ + 1, !.i = 1, !.started = 0,
                     !.results = [k \in 1..Len(run.batches[run.batch + 1]) |-> "-"]]
    ELSE [run EXCEPT !.pc = "returned", !.returned = (run.failed = <<>>),
                     !.app = "serving"]

\* startup_all is called (lines 166-192).
StartupAll ==
    /\ mgr_run.pc = "idle"
    /\ LET found == _get_startup_batches(mgr.components)
           run == [mgr_run EXCEPT !.pc = "batch", !.batches = found.batches]
       IN mgr_run' = IF found.raised # "-" THEN StartupRaised(mgr_run)
                     ELSE BatchDone(run)
    /\ UNCHANGED <<mgr, mgr_events, registry_vars, non_manager_vars>>

\* The batch being started, and whether asyncio.gather starts it (line 204).
CurrentBatch == mgr_run.batches[mgr_run.batch]

InParallel == mgr.parallel_startup /\ Len(CurrentBatch) > 1

\* Lines 226-238: the next component of a batch that is started
\* sequentially; its startup() returns or raises.
StartupSequential ==
    /\ mgr_run.pc = "batch"
    /\ ~ InParallel
    /\ \E ok \in BOOLEAN :
        LET n == CurrentBatch[mgr_run.i]
            k == IndexOfName(mgr.components, n)
            done == _startup_component(mgr.components[k], ok)
            counted == [mgr EXCEPT !.components[k] = done.component,
                           !.successful_components = IF done.success THEN @ + 1 ELSE @,
                           !.failed_components = IF done.success THEN @ ELSE @ + 1]
            run == [mgr_run EXCEPT !.i = @ + 1,
                       !.failed = IF done.success THEN @ ELSE Append(@, n)]
        IN /\ mgr_events' = mgr_events \o
                  <<Event("startup", n),
                    Event(IF ok THEN "startup_returned" ELSE "startup_raised", n)>>
           /\ hr_components' = IF ok THEN hr_components ELSE MarkFailed(hr_components, n)
           /\ IF done.raised # "-"
              THEN mgr' = [mgr EXCEPT !.components[k] = done.component]
                   /\ mgr_run' = StartupRaised(mgr_run)
              ELSE /\ mgr' = counted
                   /\ mgr_run' = IF MustRaise(mgr, done.success) THEN StartupRaised(run)
                                 ELSE IF run.i > Len(CurrentBatch) THEN BatchDone(run)
                                 ELSE run
    /\ UNCHANGED <<hr_lock, hr_pc, hr_call, hr_returned, hr_hist, hr_created,
                   registry_vars, stream_vars, face_vars, grpc_vars>>

\* Lines 206-209: asyncio.gather runs the coroutines of the batch as tasks,
\* which begin in list order: the next one calls startup().
GatherStart ==
    /\ mgr_run.pc = "batch"
    /\ InParallel
    /\ mgr_run.started < Len(CurrentBatch)
    /\ LET n == CurrentBatch[mgr_run.started + 1]
           k == IndexOfName(mgr.components, n)
       IN /\ mgr' = [mgr EXCEPT !.components[k].state = "initializing"]
          /\ mgr_run' = [mgr_run EXCEPT !.started = @ + 1]
          /\ mgr_events' = Append(mgr_events, Event("startup", n))
    /\ UNCHANGED <<registry_vars, non_manager_vars>>

\* A task of the batch ends: its startup() returns or raises.
GatherFinish ==
    /\ mgr_run.pc = "batch"
    /\ InParallel
    /\ \E j \in 1..mgr_run.started : \E ok \in BOOLEAN :
        LET n == CurrentBatch[j]
            k == IndexOfName(mgr.components, n)
            done == _startup_component(mgr.components[k], ok)
        IN /\ mgr_run.results[j] = "-"
           /\ mgr' = [mgr EXCEPT !.components[k] = done.component]
           /\ mgr_run' = IF done.raised # "-" THEN StartupRaised(mgr_run)
                         ELSE [mgr_run EXCEPT !.results[j] =
                                   IF done.success THEN "True" ELSE "False"]
           /\ mgr_events' = Append(mgr_events,
                  Event(IF ok THEN "startup_returned" ELSE "startup_raised", n))
           /\ hr_components' = IF ok THEN hr_components ELSE MarkFailed(hr_components, n)
    /\ UNCHANGED <<hr_lock, hr_pc, hr_call, hr_returned, hr_hist, hr_created,
                   registry_vars, stream_vars, face_vars, grpc_vars>>

\* The results of gather are counted in list order from the j-th on (lines
\* 212-223); the value is the manager and the locals when the loop is left.
RECURSIVE CountFrom(_, _, _)
CountFrom(j, manager, run) ==
    IF j > Len(run.results) THEN [manager |-> manager, run |-> BatchDone(run)]
    ELSE LET success == run.results[j] = "True"
             counted == [manager EXCEPT
                            !.successful_components = IF success THEN @ + 1 ELSE @,
                            !.failed_components = IF success THEN @ ELSE @ + 1]
             noted == [run EXCEPT !.failed =
                          IF success THEN @ ELSE Append(@, run.batches[run.batch][j])]
         IN IF MustRaise(manager, success)
            THEN [manager |-> counted, run |-> StartupRaised(noted)]
            ELSE CountFrom(j + 1, counted, noted)

\* Faulty variant: the manager goes on as soon as the tasks of the batch
\* have begun, without awaiting their results.
CountResults_NoAwait ==
    /\ mgr_run.pc = "batch"
    /\ InParallel
    /\ mgr_run.started = Len(CurrentBatch)
    /\ mgr_run' = BatchDone(mgr_run)
    /\ UNCHANGED <<mgr, mgr_events, registry_vars, non_manager_vars>>

\* gather has returned the results of all tasks of the batch.
CountResults ==
    /\ mgr_run.pc = "batch"
    /\ InParallel
    /\ \A j \in 1..Len(CurrentBatch) : mgr_run.results[j] # "-"
    /\ LET counted == CountFrom(1, mgr, mgr_run)
       IN mgr' = counted.manager /\ mgr_run' = counted.run
    /\ UNCHANGED <<mgr_events, registry_vars, non_manager_vars>>

\* shutdown_all is called (lines 289-297): by the finally clause of the
\* lifespan (line 426), after the application was served or after startup
\* raised.
ShutdownAll ==
    /\ mgr_run.pc \in {"returned", "raised"}
    /\ mgr_run' = [mgr_run EXCEPT
           !.pc = IF mgr.components = <<>> THEN "stopped" ELSE "shutdown",
           !.i = 1,
           !.app = IF @ = "serving" THEN "stopped" ELSE @]
    /\ UNCHANGED <<mgr, mgr_events, registry_vars, non_manager_vars>>

\* Lines 297-298: the next component in reverse list order; its shutdown()
\* returns or raises.  An exception that leaves _shutdown_component ends the
\* loop and is logged by the lifespan (lines 428-433).
ShutdownComponent ==
    /\ mgr_run.pc = "shutdown"
    /\ \E ok \in BOOLEAN :
        LET c == ShutdownOrder(mgr.components)[mgr_run.i]
            k == IndexOfName(mgr.components, c.name)
            done == _shutdown_component(c, ok)
        IN /\ mgr' = [mgr EXCEPT !.components[k] = done.component]
           /\ mgr_events' = mgr_events \o
                  <<Event("shutdown", c.name),
                    Event(IF ok THEN "shutdown_returned" ELSE "shutdown_raised", c.name)>>
           /\ mgr_run' = [mgr_run EXCEPT
                  !.i = @ + 1,
                  !.pc = IF done.raised # "-" \/ mgr_run.i = Len(mgr.components)
                         THEN "stopped" ELSE @]
    /\ UNCHANGED <<registry_vars, non_manager_vars>>

ManagerNext ==
    \/ StartupAll
    \/ StartupSequential
    \/ GatherStart
    \/ GatherFinish
    \/ CountResults
    \/ ShutdownAll
    \/ ShutdownComponent

ManagerSpec == RunInit /\ [][ManagerNext]_vars

\* ------------------------------------------------- the lifespan context

\* The methods of class LifespanManager (manager.py lines 36, 159, 282, 308,
\* 343).  The def of initialize_components (line 66) is indented into the
\* body of __init__: it is a local function of the constructor, not a method.
LifespanManagerMethods ==
    {"__init__", "startup_all", "shutdown_all", "health_check_all",
     "get_startup_metrics"}

\* An application about to be started: the registry holds the classes that
\* were registered on import, no manager method has run.
AppInit ==
    /\ StreamInit
    /\ FaceInit
    /\ GRPCServerInit
    /\ HealthRegistryInit
    /\ reg_components \in ValidRegistries
    /\ reg_component_map = [n \in NamesOf(reg_components) |->
            reg_components[CHOOSE i \in 1..Len(reg_components) :
                               reg_components[i].name = n]]
    /\ reg_outcome = NoOutcome
    /\ reg_registered = NoRegister
    /\ ManagerInit

\* lifespan(app) is entered (lines 370-389): the manager is constructed from
\* the settings, and manager.initialize_components is looked up, which raises
\* AttributeError since the class has no such method.
LifespanEnter ==
    /\ mgr_run.pc = "idle"
    /\ "initialize_components" \notin LifespanManagerMethods
    /\ \E parallel, fail_fast \in BOOLEAN : mgr' = NewManager(parallel, fail_fast)
    /\ mgr_run' = [mgr_run EXCEPT !.pc = "lifespan_except",
                                  !.raised = "AttributeError"]
    /\ UNCHANGED <<mgr_events, registry_vars, non_manager_vars>>

\* The except clause (lines 412-419) logs application_startup_failed and
\* re-raises: the application is not started.
LifespanExcept ==
    /\ mgr_run.pc = "lifespan_except"
    /\ mgr_run' = [mgr_run EXCEPT !.pc = "lifespan_finally", !.app = "failed"]
    /\ UNCHANGED <<mgr, mgr_events, registry_vars, non_manager_vars>>

\* The finally clause (lines 421-433) awaits manager.shutdown_all(), which
\* has no component to go through (lines 297-298); the exception being
\* raised then leaves the context.
LifespanFinally ==
    /\ mgr_run.pc = "lifespan_finally"
    /\ mgr.components = <<>>
    /\ mgr_events' = Append(mgr_events, Event("shutdown_all", "-"))
    /\ mgr_run' = [mgr_run EXCEPT !.pc = "stopped"]
    /\ UNCHANGED <<mgr, registry_vars, non_manager_vars>>

LifespanNext ==
    \/ LifespanEnter
    \/ LifespanExcept
    \/ LifespanFinally

LifespanSpec == AppInit /\ [][LifespanNext]_vars

\* ------------------------------------------------------------ gRPC server

\* Calls of start, stop and shutdown made on the one server.
MaxServerCalls == 4

\* How the body of start can end: every statement succeeds, grpc.server(...)
\* raises (line 136), or a statement after it raises (lines 154-177:
\* a servicer, add_insecure_port, server.start).
StartOutcomes == {"started", "create_raises", "start_raises"}

\* How the body of stop can end: server.stop and stop_event.wait return, or
\* one of them raises (lines 216-218).
StopOutcomes == {"stopped", "stop_raises"}

\* A call on the health registry as start and stop make it.
ServerReport(op, st) ==
    [op |-> op, name |-> "grpc_server", status |-> st, overall |-> "-"]

\* The registry after one update call (health_registry.py lines 90-106,
\* 121-138, 149-166).
ReportOne(h, call) ==
    IF call.name \in DOMAIN h.components
    THEN [components |-> [h.components EXCEPT ![call.name] =
                             CountCheck(AssignStatus(@, call), call)],
          hist |-> [h.hist EXCEPT ![call.name] = Append(@, call)],
          created |-> h.created]
    ELSE [components |-> DictSet(h.components, call.name, NewComponentHealth(call)),
          hist |-> [h.hist EXCEPT ![call.name] = Append(@, call)],
          created |-> [h.created EXCEPT ![call.name] = @ + 1]]

RECURSIVE ReportAll(_, _)
ReportAll(h, calls) ==
    IF calls = <<>> THEN h
    ELSE ReportAll(ReportOne(h, Head(calls)), Tail(calls))

\* The health registry is updated by the calls, in order.
ServerReports(calls) ==
    LET h == ReportAll([components |-> hr_components, hist |-> hr_hist,
                        created |-> hr_created], calls)
    IN /\ hr_components' = h.components
       /\ hr_hist' = h.hist
       /\ hr_created' = h.created

\* Faulty variant: the try block of start runs on any handle.
StartedServer_Always(s, outcome) ==
    IF outcome = "create_raises" THEN s
    ELSE [s EXCEPT !.server = s.created + 1, !.created = @ + 1,
                   !.started = (outcome = "started")]

\* start lines 119-121 and 134-177: the attributes after the call.  A
\* statement that raises after line 136 leaves the created server assigned.
StartedServer(s, outcome) ==
    IF s.server # 0 \/ outcome = "create_raises" THEN s
    ELSE [s EXCEPT !.server = s.created + 1, !.created = @ + 1,
                   !.started = (outcome = "started")]

\* Faulty variant: the handle is cleared only when stopping succeeded.
StoppedServer_KeepsOnError(s, outcome) ==
    IF s.server = 0 THEN s
    ELSE IF outcome = "stop_raises" THEN [s EXCEPT !.cleanups = @ + 1]
    ELSE [s EXCEPT !.server = 0, !.started = FALSE, !.cleanups = @ + 1]

\* stop lines 203-205 and 228-235: the finally clause clears the handle and
\* calls face_service.cleanup(), which is never None (lines 99-101).
StoppedServer(s, outcome) ==
    IF s.server = 0 THEN s
    ELSE [s EXCEPT !.server = 0, !.started = FALSE, !.cleanups = @ + 1]

\* GRPCServer.start() (lines 115-194).
start ==
    /\ grpc_server.calls < MaxServerCalls
    /\ \E outcome \in StartOutcomes :
        /\ grpc_server' = [StartedServer(grpc_server, outcome) EXCEPT !.calls = @ + 1]
        /\ IF grpc_server.server # 0
           THEN /\ grpc_returned' = [op |-> "start", outcome |-> "already_started",
                                     raised |-> FALSE, before |-> grpc_server.server]
                /\ UNCHANGED <<hr_components, hr_hist, hr_created>>
           ELSE /\ grpc_returned' = [op |-> "start", outcome |-> outcome,
                                     raised |-> outcome # "started", before |-> 0]
                /\ ServerReports(<<ServerReport("register_component", "unknown"),
                                   IF outcome = "started"
                                   THEN ServerReport("mark_healthy", "healthy")
                                   ELSE ServerReport("mark_failed", "unhealthy")>>)
    /\ UNCHANGED <<hr_lock, hr_pc, hr_call, hr_returned, stream_vars,
                   registry_vars, manager_vars, face_vars>>

\* The body of stop: GRPCServer.stop() (lines 196-235).  cleanup catches what
\* it raises (Face_Recognition_Service.py lines 89-105) and changes no
\* attribute of the service.
StopServer(op) ==
    /\ grpc_server.calls < MaxServerCalls
    /\ \E outcome \in StopOutcomes :
        /\ grpc_server' = [StoppedServer(grpc_server, outcome) EXCEPT !.calls = @ + 1]
        /\ IF grpc_server.server = 0
           THEN /\ grpc_returned' = [op |-> op, outcome |-> "not_running",
                                     raised |-> FALSE, before |-> 0]
                /\ UNCHANGED <<hr_components, hr_hist, hr_created>>
           ELSE /\ grpc_returned' = [op |-> op, outcome |-> outcome,
                                     raised |-> FALSE, before |-> grpc_server.server]
                /\ ServerReports(<<ServerReport("register_component", "degraded"),
                                   IF outcome = "stopped"
                                   THEN ServerReport("register_component", "unknown")
                                   ELSE ServerReport("mark_failed", "unhealthy")>>)
    /\ UNCHANGED <<hr_lock, hr_pc, hr_call, hr_returned, stream_vars,
                   registry_vars, manager_vars, face_vars>>

stop == StopServer("stop")

\* GRPCServerComponent.shutdown() (grpc_server.py lines 60-75) of the
\* component that holds this server since line 46: stop(grace_period=5) in a
\* try block whose except clause logs.
shutdown == StopServer("shutdown")

GRPCNext ==
    \/ start
    \/ stop
    \/ shutdown

GRPCSpec == Init /\ [][GRPCNext]_vars

\* ------------------------------------------- face recognition service

\* ImageValidationLimits (Face_Recognition_Service.py lines 28-31).
MIN_DIMENSION == 40

MAX_PIXELS == 4096 * 4096

DEFAULT_RESIZE_DIMENSION == 1280

\* Submitted images: bytes cv2.imdecode cannot decode, and pictures of a
\* height and a width in pixels.
Picture(h, w) == [decodes |-> TRUE, h |-> h, w |-> w]

Images ==
    { [decodes |-> FALSE, h |-> 0, w |-> 0],
      Picture(39, 640), Picture(40, 40), Picture(2000, 50), Picture(480, 640),
      Picture(4096, 4096), Picture(5000, 5000) }

\* Values of the arguments max_image_dimension, max_faces and skip_embedding.
MaxImageDimensions == {0, 8192}

MaxFacesValues == {0, 1, 2}

\* What detector.detect_with_quality does on a call: it raises, or returns
\* a list of faces; a face is known by its position in the detector's output,
\* has a confidence that does not follow that position, and carries a crop
\* or None (the service tests f.crop is not None, line 487).
DetectedFace(k, c, crop) == [det |-> k, confidence |-> c, crop |-> crop]

DetectorOutcomes ==
    { [raised |-> "RuntimeError", faces |-> <<>>],
      [raised |-> "-", faces |-> <<>>],
      [raised |-> "-", faces |-> <<DetectedFace(1, 70, TRUE)>>],
      [raised |-> "-", faces |-> <<DetectedFace(1, 70, TRUE), DetectedFace(2, 90, TRUE),
                                   DetectedFace(3, 80, TRUE)>>],
      [raised |-> "-", faces |-> <<DetectedFace(1, 70, TRUE), DetectedFace(2, 90, FALSE),
                                   DetectedFace(3, 80, TRUE)>>] }

ServiceMethods == {"detect_faces", "extract_embeddings", "process_frame"}

FaceRequests ==
    [op : ServiceMethods, image : Images, max_image_dimension : MaxImageDimensions,
     max_faces : MaxFacesValues, skip_embedding : BOOLEAN]

Max(a, b) == IF a >= b THEN a ELSE b

\* int(round(num / den)): Python rounds a half to the even neighbour.
RoundHalfEven(num, den) ==
    LET q == num \div den
        r == num % den
    IN IF 2 * r < den THEN q
       ELSE IF 2 * r > den THEN q + 1
       ELSE IF q % 2 = 0 THEN q ELSE q + 1

\* _decode_and_resize_image (lines 428-454): the decoded picture, scaled so
\* that its longer side is max_dimension when it was longer.
_decode_and_resize_image(image, max_dimension) ==
    IF ~ image.decodes
    THEN [raised |-> "InvalidImageException", h |-> 0, w |-> 0]
    ELSE IF max_dimension <= 0 \/ Max(image.h, image.w) <= max_dimension
    THEN [raised |-> "-", h |-> image.h, w |-> image.w]
    ELSE [raised |-> "-",
          h |-> Max(1, RoundHalfEven(image.h * max_dimension, Max(image.h, image.w))),
          w |-> Max(1, RoundHalfEven(image.w * max_dimension, Max(image.h, image.w)))]

\* _validate_image (lines 463-475): the exception it raises, "-" if none.
_validate_image(h, w) ==
    IF h * w > MAX_PIXELS THEN "InvalidImageException"
    ELSE IF h < MIN_DIMENSION \/ w < MIN_DIMENSION THEN "InvalidImageException"
    ELSE "-"

\* Lines 153-154, 233-234, 320-321: detected_faces[:max_faces] when max_faces
\* is not 0 and more faces were detected.
LimitFaces(detected_faces, max_faces) ==
    IF max_faces # 0 /\ Len(detected_faces) > max_faces
    THEN SubSeq(detected_faces, 1, max_faces)
    ELSE detected_faces

\* _map_detected_face (lines 518-539): face_id is 0, there is no embedding
\* (-1).
_map_detected_face(face) ==
    [det |-> face.det, confidence |-> face.confidence, face_id |-> 0,
     embedding |-> -1]

\* _map_face_with_embedding (lines 548-570): no face_id (-1); the embedding
\* is the one the embedder computed from the crop of the face paired with it.
_map_face_with_embedding(face, embedding) ==
    [det |-> face.det, confidence |-> face.confidence, face_id |-> -1,
     embedding |-> embedding]

\* _extract_embeddings_batch (lines 487-506): the crops that are not None go
\* to the embedder, which returns one embedding per crop, in order (the
\* embedding of the crop of face k is written k); without any crop, a zero
\* vector (0) per face.
_extract_embeddings_batch(detected_faces) ==
    LET HasCrop(f) == f.crop
        crops == SelectSeq(detected_faces, HasCrop)
    IN IF crops = <<>>
       THEN [k \in 1..Len(detected_faces) |-> 0]
       ELSE [k \in 1..Len(crops) |-> crops[k].det]

\* [f(face, emb) for face, emb in zip(detected_faces, embeddings)] (lines
\* 241-244, 334-337): zip stops at the shorter list.
MapWithEmbeddings(detected_faces, embeddings) ==
    [k \in 1..(IF Len(embeddings) < Len(detected_faces)
               THEN Len(embeddings) ELSE Len(detected_faces)) |->
        _map_face_with_embedding(detected_faces[k], embeddings[k])]

\* A method left by an exception, and a returned dict.
Raised(e, called) ==
    [raised |-> e, success |-> FALSE, face_detected |-> "-", faces |-> <<>>,
     detector_called |-> called, h |-> 0, w |-> 0]

Returned(face_detected, faces, image) ==
    [raised |-> "-", success |-> TRUE, face_detected |-> face_detected,
     faces |-> faces, detector_called |-> TRUE, h |-> image.h, w |-> image.w]

\* The image the detector is given by detect_faces and extract_embeddings
\* (lines 136-142, 207-213), or the exception raised before.
PreparedImage(request) ==
    LET image == _decode_and_resize_image(request.image,
                     IF request.max_image_dimension # 0
                     THEN request.max_image_dimension
                     ELSE DEFAULT_RESIZE_DIMENSION)
    IN IF image.raised # "-" THEN image
       ELSE [image EXCEPT !.raised = _validate_image(image.h, image.w)]

\* detect_faces (lines 132-178).
detect_faces(request, detected) ==
    LET image == PreparedImage(request)
        kept == LimitFaces(detected.faces, request.max_faces)
    IN IF image.raised # "-" THEN Raised(image.raised, FALSE)
       ELSE IF detected.raised # "-" THEN Raised(detected.raised, TRUE)
       ELSE Returned("-", [k \in 1..Len(kept) |-> _map_detected_face(kept[k])], image)

\* extract_embeddings (lines 203-264); no faces: _build_no_faces_response
\* (lines 598-609).
extract_embeddings(request, detected) ==
    LET image == PreparedImage(request)
        kept == LimitFaces(detected.faces, request.max_faces)
        embeddings == _extract_embeddings_batch(kept)
    IN IF image.raised # "-" THEN Raised(image.raised, FALSE)
       ELSE IF detected.raised # "-" THEN Raised(detected.raised, TRUE)
       ELSE IF detected.faces = <<>> THEN Returned("False", <<>>, image)
       ELSE Returned("True", MapWithEmbeddings(kept, embeddings), image)

\* process_frame (lines 289-355) on a decoded frame; _build_frame_response
\* (lines 622-640) numbers the faces.
process_frame(request, detected) ==
    LET kept == LimitFaces(detected.faces, request.max_faces)
        embeddings == _extract_embeddings_batch(kept)
        faces == IF request.skip_embedding
                 THEN [k \in 1..Len(kept) |-> _map_detected_face(kept[k])]
                 ELSE MapWithEmbeddings(kept, embeddings)
    IN IF detected.raised # "-" THEN Raised(detected.raised, TRUE)
       ELSE Returned("-", [k \in 1..Len(faces) |-> [faces[k] EXCEPT !.face_id = k - 1]],
                     request.image)

\* FaceServicer._extract_embeddings_impl (face_servicer.py lines 123-215) on
\* the outcome of extract_embeddings: the FaceEmbeddingResponse.
_extract_embeddings_impl(result) ==
    LET Response(success, face_detected, error_code, faces) ==
            [success |-> success, face_detected |-> face_detected,
             error_code |-> error_code, faces |-> faces]
    IN IF result.raised = "InvalidImageException"
       THEN Response(FALSE, FALSE, "INVALID_IMAGE", <<>>)
       ELSE IF result.raised # "-"
       THEN Response(FALSE, FALSE, "INTERNAL_ERROR", <<>>)
       ELSE IF ~ result.success
       THEN Response(FALSE, result.face_detected = "True", "ERROR_CODE_UNSPECIFIED", <<>>)
       ELSE IF result.faces = <<>>
       THEN Response(FALSE, FALSE, "NO_FACE_FOUND", <<>>)
       ELSE Response(TRUE, result.face_detected = "True", "ERROR_CODE_UNSPECIFIED",
                     result.faces)

\* A worker of the thread pool calls a method of the shared service, which
\* begins with _ensure_models_loaded (lines 132, 203, 289).
FaceCall(w) ==
    /\ face_call[w].pc = "idle"
    /\ face_call' = [face_call EXCEPT ![w].pc = "ensure"]
    /\ UNCHANGED <<face_service, face_returned, stream_vars, lifespan_vars>>

\* _ensure_models_loaded line 388: nothing to do when both models are there.
EnsureCheck(w) ==
    /\ face_call[w].pc = "ensure"
    /\ face_call' = [face_call EXCEPT ![w].pc =
           IF face_service.detector # 0 /\ face_service.embedder # 0
           THEN "body" ELSE "build_detector"]
    /\ UNCHANGED <<face_service, face_returned, stream_vars, lifespan_vars>>

\* Lines 392-398: a FaceDetector is constructed and assigned.
BuildDetector(w) ==
    /\ face_call[w].pc = "build_detector"
    /\ face_service' = [face_service EXCEPT
           !.detectors_built = @ + 1,
           !.detector = face_service.detectors_built + 1]
    /\ face_call' = [face_call EXCEPT ![w].pc = "build_embedder"]
    /\ UNCHANGED <<face_returned, stream_vars, lifespan_vars>>

\* Lines 401-414: a FaceEmbedder is constructed and assigned.
BuildEmbedder(w) ==
    /\ face_call[w].pc = "build_embedder"
    /\ face_service' = [face_service EXCEPT
           !.embedders_built = @ + 1,
           !.embedder = face_service.embedders_built + 1]
    /\ face_call' = [face_call EXCEPT ![w].pc = "body"]
    /\ UNCHANGED <<face_returned, stream_vars, lifespan_vars>>

\* The rest of the method: the request is read, self.detector is called and
\* the result is returned; for extract_embeddings the servicer builds the
\* response of the RPC from it.
FaceBody(w) ==
    /\ face_call[w].pc = "body"
    /\ \E request \in FaceRequests, detected \in DetectorOutcomes :
        LET result == CASE request.op = "detect_faces" -> detect_faces(request, detected)
                        [] request.op = "extract_embeddings" ->
                               extract_embeddings(request, detected)
                        [] OTHER -> process_frame(request, detected)
        IN /\ request.op = "process_frame" =>
                 /\ request.image.decodes
                 /\ request.max_image_dimension = 0
           /\ request.op # "process_frame" => ~ request.skip_embedding
           /\ face_returned' =
                 [worker |-> w, request |-> request, detected |-> detected,
                  result |-> result,
                  response |-> IF request.op = "extract_embeddings"
                               THEN _extract_embeddings_impl(result)
                               ELSE <<>>]
           /\ face_service' = [face_service EXCEPT !._frame_counter =
                                  IF request.op = "process_frame" THEN @ + 1 ELSE @]
           /\ face_call' = [face_call EXCEPT
                  ![w].pc = "done",
                  ![w].detector_used = IF result.detector_called
                                       THEN face_service.detector ELSE @]
    /\ UNCHANGED <<stream_vars, lifespan_vars>>

FaceNext ==
    \E w \in Workers :
        \/ FaceCall(w)
        \/ EnsureCheck(w)
        \/ BuildDetector(w)
        \/ BuildEmbedder(w)
        \/ FaceBody(w)

FaceSpec == Init /\ [][FaceNext]_vars

\* ------------------------------------ lifespan manager: health_check_all

\* mark_degraded (health_registry.py lines 119-145) as one step of the
\* thread that holds the lock.
MarkDegraded(components, n) ==
    LET call == [op |-> "mark_degraded", name |-> n, status |-> "degraded",
                 overall |-> "-"]
    IN IF n \in DOMAIN components
       THEN [components EXCEPT ![n] = CountCheck(AssignStatus(@, call), call)]
       ELSE DictSet(components, n, NewComponentHealth(call))

\* What component.health_check() does: it returns True or False, or raises.
HealthCheckOutcomes == {"True", "False", "raises"}

\* Faulty variant: there is no except clause around the check.
CheckComponent_NoExcept(results, registry, component, outcome) ==
    IF outcome = "raises"
    THEN [results |-> results, registry |-> registry, raised |-> "Exception"]
    ELSE [results |-> DictSet(results, component.name, outcome = "True"),
          registry |-> IF outcome = "False" /\ component.state = "ready"
                       THEN MarkDegraded(registry, component.name)
                       ELSE registry,
          raised |-> "-"]

\* Faulty variant: a passing check marks the component Healthy.
CheckComponent_MarksHealthy(results, registry, component, outcome) ==
    IF outcome = "raises"
    THEN [results |-> DictSet(results, component.name, FALSE),
          registry |-> MarkFailed(registry, component.name),
          raised |-> "-"]
    ELSE [results |-> DictSet(results, component.name, outcome = "True"),
          registry |-> IF outcome = "False" /\ component.state = "ready"
                       THEN MarkDegraded(registry, component.name)
                       ELSE IF outcome = "True" /\ component.name \in DOMAIN registry
                       THEN [registry EXCEPT ![component.name].status = "healthy"]
                       ELSE registry,
          raised |-> "-"]

\* One pass of the loop of health_check_all (lines 317-339) on a component:
\* the results dict and the Health Registry afterwards.
CheckComponent(results, registry, component, outcome) ==
    IF outcome = "raises"
    THEN [results |-> DictSet(results, component.name, FALSE),
          registry |-> MarkFailed(registry, component.name),
          raised |-> "-"]
    ELSE [results |-> DictSet(results, component.name, outcome = "True"),
          registry |-> IF outcome = "False" /\ component.state = "ready"
                       THEN MarkDegraded(registry, component.name)
                       ELSE registry,
          raised |-> "-"]

RECURSIVE MarkAllFailed(_, _)
MarkAllFailed(registry, names) ==
    IF names = <<>> THEN registry
    ELSE MarkAllFailed(MarkFailed(registry, names[1]), Tail(names))

\* The manager of a served application: startup_all has returned with
\* fail_on_component_error false, every component is Ready or Failed, the
\* failed ones are counted and marked in the Health Registry.
HealthCheckInit ==
    /\ StreamInit
    /\ FaceInit
    /\ GRPCServerInit
    /\ reg_components \in ValidRegistries
    /\ reg_component_map = [n \in NamesOf(reg_components) |->
            reg_components[CHOOSE i \in 1..Len(reg_components) :
                               reg_components[i].name = n]]
    /\ reg_outcome = NoOutcome
    /\ reg_registered = NoRegister
    /\ \E states \in [1..Len(reg_components) -> {"ready", "failed"}] :
        LET made == InitializeComponents(reg_components, reg_component_map,
                                         FALSE, {}).components
            started == [k \in 1..Len(made) |-> [made[k] EXCEPT !.state = states[k]]]
            IsFailed(c) == c.state = "failed"
            failed == SelectSeq(started, IsFailed)
            names == [k \in 1..Len(failed) |-> failed[k].name]
        IN /\ mgr = [NewManager(TRUE, FALSE) EXCEPT
                        !.components = started,
                        !.failed_components = Len(failed),
                        !.successful_components = Len(started) - Len(failed)]
           /\ mgr_run = [NoRun EXCEPT !.pc = "returned", !.app = "serving",
                                      !.returned = (failed = <<>>)]
           /\ hr_components = MarkAllFailed(<<>>, names)
    /\ hr_lock = [owner |-> 0, depth |-> 0]
    /\ hr_pc = [t \in HealthThreads |-> "idle"]
    /\ hr_call = [t \in HealthThreads |-> NoCall]
    /\ hr_returned = NoReturn
    /\ hr_hist = [n \in HealthNames |-> <<>>]
    /\ hr_created = [n \in HealthNames |-> 0]
    /\ mgr_events = <<>>

\* The loop of health_check_all is over, or was left by an exception: line
\* 341 returns the results.
HealthCheckDone(run) ==
    IF run.raised # "-" THEN [run EXCEPT !.pc = "health_check_raised"]
    ELSE IF run.i > Len(mgr.components) THEN [run EXCEPT !.pc = "health_checked"]
    ELSE run

\* The calls of health_check_all followed, by their number.
HealthCheckRuns == {1, 2}

\* health_check_all is called on the served application (lines 308-317),
\* for the first time or again after it has returned.
HealthCheckAll ==
    /\ mgr_run.pc \in {"returned", "health_checked"}
    /\ mgr_run.app = "serving"
    /\ mgr_run.checks + 1 \in HealthCheckRuns
    /\ mgr_run' = HealthCheckDone([mgr_run EXCEPT !.pc = "health_check", !.i = 1,
                                                  !.results = <<>>,
                                                  !.checks = @ + 1])
    /\ mgr_events' = <<>>
    /\ UNCHANGED <<mgr, registry_vars, non_manager_vars>>

\* Lines 317-339: the health check of the next component returns or raises.
HealthCheckComponent ==
    /\ mgr_run.pc = "health_check"
    /\ \E outcome \in HealthCheckOutcomes :
        LET component == mgr.components[mgr_run.i]
            done == CheckComponent(mgr_run.results, hr_components, component, outcome)
        IN /\ mgr_run' = HealthCheckDone([mgr_run EXCEPT !.i = @ + 1,
                                                         !.results = done.results,
                                                         !.raised = done.raised])
           /\ hr_components' = done.registry
           /\ mgr_events' = Append(mgr_events, Event(outcome, component.name))
    /\ UNCHANGED <<mgr, hr_lock, hr_pc, hr_call, hr_returned, hr_hist, hr_created,
                   registry_vars, stream_vars, face_vars, grpc_vars>>

HealthCheckNext ==
    \/ HealthCheckAll
    \/ HealthCheckComponent

HealthCheckSpec == HealthCheckInit /\ [][HealthCheckNext]_vars

\* ================================================================== claims

\* What became of the frame a call handled last.
LastPath(c) == IF log[c] = <<>> THEN "none" ELSE log[c][Len(log[c])].path

\* Indices of the frames of camera cam in call c that took one of the paths.
FramesOf(c, cam, paths) ==
    { i \in 1..Len(log[c]) : log[c][i].camera_id = cam /\ log[c][i].path \in paths }

\* The camera a request is accounted to, as the claims state it.
ClaimedCamera(raw) == IF raw = "" THEN "unknown" ELSE raw

\* Call c handles its pending frame in this step.
HandlesFrame(c) == pc[c] = "frame" /\ pc'[c] # "frame"

\* ----------------------------------------------------------------------- C1
\* C1: for every camera session, frames_processed + frames_dropped equals the
\* number of frame messages of that camera the call has handled so far,
\* whatever path each frame took.
C1_EveryFrameCounted ==
    \A c \in Calls : \A cam \in DOMAIN camera_metrics[c] :
        camera_metrics[c][cam].frames_processed + camera_metrics[c][cam].frames_dropped
            = Cardinality(FramesOf(c, cam,
                  {"throttled", "decode_error", "process_error", "ok"}))

\* ----------------------------------------------------------------------- C2
\* C2: a frame whose timestamp_ms minus the camera's last-processed timestamp
\* (the value read from the dict, 0 for an unseen camera) is below
\* min_frame_interval_ms is dropped: the dropped counter grows by one, the
\* last-processed timestamps stay as they are and the response has zero faces
\* and zero processing time.  Any other frame sets the camera's last-processed
\* timestamp to its own and goes on to decoding.
C2_ThrottleContract ==
    [][\A c \in Calls :
        /\ (pc[c] = "iter" /\ pc'[c] = "frame") =>
              last_time'[c] =
                  (IF ClaimedCamera(req'[c].camera_id) \in DOMAIN last_process_time
                   THEN last_process_time[ClaimedCamera(req'[c].camera_id)]
                   ELSE 0)
        /\ HandlesFrame(c) =>
              LET cam == ClaimedCamera(req[c].camera_id)
                  elapsed == req[c].timestamp_ms - last_time[c]
              IN IF elapsed < MinFrameIntervalMs
                 THEN /\ LastPath(c)' = "throttled"
                      /\ camera_metrics'[c][cam].frames_dropped
                            = camera_metrics[c][cam].frames_dropped + 1
                      /\ camera_metrics'[c][cam].frames_processed
                            = camera_metrics[c][cam].frames_processed
                      /\ last_process_time' = last_process_time
                      /\ nresp'[c] = nresp[c] + 1
                      /\ resp'[c].faces = 0
                      /\ resp'[c].total_faces_detected = 0
                      /\ resp'[c].processing_time_ms = 0
                 ELSE /\ cam \in DOMAIN last_process_time'
                      /\ last_process_time'[cam] = req[c].timestamp_ms
                      /\ LastPath(c)' \in {"decode_error", "process_error", "ok", "fatal"}
                      /\ camera_metrics'[c][cam].frames_dropped
                            = camera_metrics[c][cam].frames_dropped
      ]_vars

\* A call has dropped one frame and processed another.
C2_Witness ==
    \E c \in Calls : \E cam \in CameraIds :
        /\ FramesOf(c, cam, {"throttled"}) # {}
        /\ FramesOf(c, cam, {"ok"}) # {}

\* ----------------------------------------------------------------------- C3
\* The scenario: on a fresh service one call streams frames of "cam1" at 0,
\* 10 and 50 ms, none fails to decode or to process, and the input ends.
C3_Scenario(c) ==
    /\ \A d \in Calls \ {c} : log[d] = <<>>
    /\ status[c] = "OK"
    /\ Len(log[c]) = 3
    /\ \A i \in 1..3 : log[c][i].camera_id = "cam1" /\ log[c][i].path \in {"throttled", "ok"}
    /\ log[c][1].timestamp_ms = 0
    /\ log[c][2].timestamp_ms = 10
    /\ log[c][3].timestamp_ms = 50

\* C3 as stated: the scenario ends with frames_processed = 2 and
\* frames_dropped = 1, the frame at 0 ms being processed.
C3_AsStated ==
    \A c \in Calls :
        C3_Scenario(c) =>
            /\ log[c][1].path = "ok"
            /\ camera_metrics[c]["cam1"].frames_processed = 2
            /\ camera_metrics[c]["cam1"].frames_dropped = 1

\* C3 amended: the frames at 0 ms (elapsed 0 < 33) and 10 ms are dropped and
\* the frame at 50 ms is processed: frames_processed = 1, frames_dropped = 2.
C3_Amended ==
    \A c \in Calls :
        C3_Scenario(c) =>
            /\ log[c][1].path = "throttled"
            /\ log[c][2].path = "throttled"
            /\ log[c][3].path = "ok"
            /\ camera_metrics[c]["cam1"].frames_processed = 1
            /\ camera_metrics[c]["cam1"].frames_dropped = 2

C3_Witness == \E c \in Calls : C3_Scenario(c)

\* ----------------------------------------------------------------------- C4
\* Call c answers a frame that passed the throttle and did not decode.
DecodeFailure(c) == HandlesFrame(c) /\ LastPath(c)' = "decode_error"

\* What C4 says of such a step apart from the camera_id: one response with
\* the request's frame_id, no process_frame call, and the call goes back to
\* the for statement, still open.
C4_Rest(c) ==
    /\ nresp'[c] = nresp[c] + 1
    /\ resp'[c].frame_id = req[c].frame_id
    /\ pipeline_calls' = pipeline_calls
    /\ pc'[c] = "iter"
    /\ status'[c] = "none"

\* C4 as stated: the response carries the same camera_id as the request.
C4_AsStated ==
    [][\A c \in Calls :
        DecodeFailure(c) => (resp'[c].camera_id = req[c].camera_id /\ C4_Rest(c))
      ]_vars

\* C4 amended: the response carries the request's camera_id, or "unknown"
\* when the request's camera_id is empty.
C4_Amended ==
    [][\A c \in Calls :
        DecodeFailure(c) =>
            (resp'[c].camera_id = ClaimedCamera(req[c].camera_id) /\ C4_Rest(c))
      ]_vars

\* A frame failed to decode and a following frame of the call was answered.
C4_Witness ==
    \E c \in Calls : \E i \in 1..Len(log[c]) :
        /\ log[c][i].path = "decode_error"
        /\ i < Len(log[c])
        /\ LastPath(c) \in {"throttled", "decode_error", "process_error", "ok"}
        /\ nresp[c] = Len(log[c])

\* ----------------------------------------------------------------------- C5
\* process_frame raises for the frame call c is handling.
ProcessFailure(c) == HandlesFrame(c) /\ LastPath(c)' = "process_error"

\* What C5 says of such a step apart from the camera_id: the pipeline was
\* called, one zero-face, zero-time response with the request's frame_id is
\* yielded, the metrics are untouched and the call stays open at the for
\* statement.
C5_Rest(c) ==
    /\ pipeline_calls' = pipeline_calls + 1
    /\ nresp'[c] = nresp[c] + 1
    /\ resp'[c].frame_id = req[c].frame_id
    /\ resp'[c].faces = 0
    /\ resp'[c].total_faces_detected = 0
    /\ resp'[c].processing_time_ms = 0
    /\ camera_metrics'[c] = camera_metrics[c]
    /\ pc'[c] = "iter"
    /\ status'[c] = "none"
    /\ active'[c] = active[c]

\* C5 as stated: the error response carries the same camera_id as the request.
C5_AsStated ==
    [][\A c \in Calls :
        ProcessFailure(c) => (resp'[c].camera_id = req[c].camera_id /\ C5_Rest(c))
      ]_vars

\* C5 amended: the error response carries the request's camera_id, or
\* "unknown" when the request's camera_id is empty.
C5_Amended ==
    [][\A c \in Calls :
        ProcessFailure(c) =>
            (resp'[c].camera_id = ClaimedCamera(req[c].camera_id) /\ C5_Rest(c))
      ]_vars

\* process_frame raised for a frame and a later frame of the same call was
\* processed.
C5_Witness ==
    \E c \in Calls : \E i \in 1..Len(log[c]) : \E j \in 1..Len(log[c]) :
        /\ log[c][i].path = "process_error"
        /\ i < j
        /\ log[c][j].path = "ok"

\* ----------------------------------------------------------------------- C6
\* C6: the response to a decode failure or a processing exception differs from
\* the throttled response to the same frame, so a client can tell them apart.
C6_ErrorIndicator ==
    \A c \in Calls :
        LastPath(c) \in {"decode_error", "process_error"} =>
            resp[c] # _create_throttled_response(resp[c].camera_id, resp[c].frame_id)

\* ----------------------------------------------------------------------- C7
\* C7: when a call has ended, a session summary has been emitted for every
\* camera with a session in the call.
C7_SummaryForEveryCamera ==
    \A c \in Calls :
        pc[c] = "done" =>
            \A cam \in DOMAIN camera_metrics[c] : summaries[c][cam] >= 1

\* ----------------------------------------------------------------------- C8
\* C8: once context.is_active() is false when the loop takes a request, the
\* call handles no frame any more: no log entry, no metrics update, no
\* response, no pipeline call, no change of the last-processed timestamps; the
\* call ends and the summaries of its processed cameras are flushed.
C8_CancelShortCircuits ==
    [][\A c \in Calls :
        (pc[c] = "iter" /\ ~ active[c]) =>
            /\ log'[c] = log[c]
            /\ camera_metrics'[c] = camera_metrics[c]
            /\ nresp'[c] = nresp[c]
            /\ resp'[c] = resp[c]
            /\ ~ active'[c]
            /\ pc'[c] \in {"iter", "done"}
            /\ (pc'[c] = "done" =>
                  /\ last_process_time' = last_process_time
                  /\ pipeline_calls' = pipeline_calls
                  /\ \A cam \in DOMAIN camera_metrics[c] :
                        camera_metrics[c][cam].frames_processed > 0
                            => summaries'[c][cam] > summaries[c][cam])
      ]_vars

\* A call that had processed frames was cancelled.
C8_Witness ==
    \E c \in Calls : \E cam \in CameraIds :
        /\ status[c] = "CANCELLED"
        /\ FramesOf(c, cam, {"ok"}) # {}
        /\ summaries[c][cam] >= 1

\* ----------------------------------------------------------------------- C9
\* C9: an exception outside the per-frame try (request iterator, response
\* building, metrics update) ends the call with status INTERNAL and the call
\* consumes no further frame; an exception of process_frame leaves the call
\* open.
C9_FatalAborts ==
    [][\A c \in Calls :
        /\ (HandlesFrame(c) /\ LastPath(c)' = "fatal") =>
              (status'[c] = "INTERNAL" /\ pc'[c] = "done" /\ nresp'[c] = nresp[c])
        /\ (status[c] = "none" /\ status'[c] = "INTERNAL") =>
              /\ pc'[c] = "done"
              /\ pc[c] = "iter" \/ (pc[c] = "frame" /\ LastPath(c)' = "fatal")
        /\ status[c] = "INTERNAL" =>
              (pc'[c] = "done" /\ log'[c] = log[c] /\ nresp'[c] = nresp[c]
               /\ status'[c] = "INTERNAL")
        /\ ProcessFailure(c) => (status'[c] = "none" /\ pc'[c] = "iter")
      ]_vars

\* A call was aborted by an exception in response building after it had
\* survived an exception of process_frame.
C9_Witness ==
    \E c \in Calls :
        /\ status[c] = "INTERNAL"
        /\ LastPath(c) = "fatal"
        /\ \E i \in 1..Len(log[c]) : log[c][i].path = "process_error"

\* ---------------------------------------------------------------------- C10
\* The timestamp of the last frame of the same camera that passed the
\* throttle earlier in the same call, 0 if there is none.
OwnLast(c, i) ==
    LET P == { j \in 1..(i - 1) : /\ log[c][j].camera_id = log[c][i].camera_id
                                  /\ log[c][j].path # "throttled" }
    IN IF P = {} THEN 0
       ELSE log[c][CHOOSE j \in P : \A k \in P : k <= j].timestamp_ms

\* C10: while calls run side by side (none has ended), whether a frame is
\* dropped depends only on the earlier frames of its own call.
C10_CallsIndependent ==
    (\A d \in Calls : pc[d] # "done") =>
        \A c \in Calls : \A i \in 1..Len(log[c]) :
            log[c][i].path # "pending" =>
                (log[c][i].path = "throttled"
                    <=> log[c][i].timestamp_ms - OwnLast(c, i) < MinFrameIntervalMs)

\* ---------------------------------------------------------------------- C11
\* C11: the last-processed timestamp lives only for the enclosing call: when
\* no other call is running (each is finished or not yet opened), the first
\* frame a call receives for a camera is evaluated against 0.
C11_FreshThrottleState ==
    [][\A c \in Calls :
        (/\ pc[c] = "iter" /\ pc'[c] = "frame"
         /\ \A d \in Calls \ {c} : pc[d] \in {"idle", "done"}
         /\ FramesOf(c, log'[c][Len(log'[c])].camera_id, {"throttled", "ok",
                 "decode_error", "process_error", "fatal"}) = {})
            => last_time'[c] = 0
      ]_vars

\* ---------------------------------------------------------------------- C12
\* The statuses of the registered components.
StatusesOf(components) == { components[n].status : n \in DOMAIN components }

\* The overall status as the claim states it.
ClaimedOverall(S) ==
    CASE S = {} -> "unknown"
      [] "unhealthy" \in S -> "unhealthy"
      [] "unhealthy" \notin S /\ "degraded" \in S -> "degraded"
      [] S = {"healthy"} -> "healthy"
      [] OTHER -> "unknown"

\* C12: get_overall_status (alone or inside get_health_summary) returns
\* Unknown for an empty registry, else Unhealthy if any component is
\* Unhealthy, else Degraded if any is Degraded, else Healthy if all are
\* Healthy, else Unknown; {Healthy, Degraded} gives Degraded and {Healthy,
\* Unhealthy, Degraded} gives Unhealthy.
C12_OverallStatus ==
    /\ hr_returned.op # "-" =>
          hr_returned.overall = ClaimedOverall(StatusesOf(hr_components))
    /\ (hr_returned.op # "-" /\ StatusesOf(hr_components) = {"healthy", "degraded"})
          => hr_returned.overall = "degraded"
    /\ (hr_returned.op # "-"
          /\ StatusesOf(hr_components) = {"healthy", "unhealthy", "degraded"})
          => hr_returned.overall = "unhealthy"

\* get_overall_status has answered for a registry holding a Healthy, an
\* Unhealthy and a Degraded component.
C12_Witness ==
    /\ hr_returned.op = "get_overall_status"
    /\ hr_returned.overall = "unhealthy"
    /\ StatusesOf(hr_components) = {"healthy", "unhealthy", "degraded"}

\* ---------------------------------------------------------------------- C13
\* The mark_degraded/mark_failed calls in h since the most recent report of
\* Healthy (register_component with status Healthy, or mark_healthy).
RECURSIVE FailuresSinceHealthy(_)
FailuresSinceHealthy(h) ==
    IF h = <<>> THEN 0
    ELSE LET last == h[Len(h)]
             before == SubSeq(h, 1, Len(h) - 1)
         IN IF last.op \in {"mark_degraded", "mark_failed"}
            THEN 1 + FailuresSinceHealthy(before)
            ELSE IF last.status = "healthy" THEN 0
            ELSE FailuresSinceHealthy(before)

\* C13: for every name, total_checks is the number of register_component and
\* mark_* calls made for it, consecutive_failures is the number of
\* mark_degraded/mark_failed calls since the most recent report of Healthy
\* (or since creation), and 0 <= consecutive_failures <= total_checks.
C13_Counters ==
    \A n \in HealthNames :
        /\ n \in DOMAIN hr_components <=> hr_hist[n] # <<>>
        /\ n \in DOMAIN hr_components =>
            /\ hr_components[n].total_checks = Len(hr_hist[n])
            /\ hr_components[n].consecutive_failures = FailuresSinceHealthy(hr_hist[n])
            /\ 0 <= hr_components[n].consecutive_failures
            /\ hr_components[n].consecutive_failures <= hr_components[n].total_checks

\* A component was marked failed, then reported Healthy by a
\* register_component call, then marked degraded.
C13_Witness ==
    \E n \in HealthNames :
        /\ Len(hr_hist[n]) = 3
        /\ hr_hist[n][1].op = "mark_failed"
        /\ hr_hist[n][2].op = "register_component" /\ hr_hist[n][2].status = "healthy"
        /\ hr_hist[n][3].op = "mark_degraded"
        /\ hr_components[n].consecutive_failures = 1
        /\ hr_components[n].total_checks = 3

\* ---------------------------------------------------------------------- C14
\* The entry a name has once exactly the calls of h have been applied in full.
EntryAfter(h) ==
    [status |-> h[Len(h)].status,
     error_message |->
        IF \E i \in 1..Len(h) : h[i].op \in {"mark_degraded", "mark_failed"}
        THEN "reason" ELSE "",
     consecutive_failures |-> FailuresSinceHealthy(h),
     total_checks |-> Len(h)]

\* The registries in which, for every name, some number of its calls have
\* been applied in full and the later ones not at all.
WholeRegistries ==
    { r \in UNION { [S -> UNION { { EntryAfter(SubSeq(hr_hist[n], 1, k)) :
                                        k \in 1..Len(hr_hist[n]) } :
                                    n \in HealthNames }] :
                    S \in SUBSET HealthNames } :
        \A n \in DOMAIN r :
            \E k \in 1..Len(hr_hist[n]) : r[n] = EntryAfter(SubSeq(hr_hist[n], 1, k)) }

\* C14: with calls of several threads interleaving on a name, its entry is
\* constructed once, total_checks counts every call that has returned, and
\* what get_overall_status or get_health_summary returns is computed from a
\* registry in which every update is applied in full or not at all.
C14_LockedRegistry ==
    /\ \A n \in HealthNames :
        /\ hr_created[n] <= 1
        /\ hr_hist[n] # <<>> =>
              /\ n \in DOMAIN hr_components
              /\ hr_components[n].total_checks = Len(hr_hist[n])
              /\ (\A t \in HealthThreads : hr_pc[t] \in {"idle", "with"})
                    => hr_components[n] = EntryAfter(hr_hist[n])
    /\ hr_returned.op = "get_health_summary" =>
        /\ hr_returned.components \in WholeRegistries
        /\ hr_returned.overall = get_overall_status(hr_returned.components)
    /\ hr_returned.op = "get_overall_status" =>
        \E r \in WholeRegistries : hr_returned.overall = get_overall_status(r)

\* One thread holds the lock in the middle of the third update of a component
\* (status assigned, counters not yet, so the entry is half-updated) while the
\* other thread, calling get_health_summary, waits for the lock.
C14_Witness ==
    \E t1, t2 \in HealthThreads : \E n \in HealthNames :
        /\ t1 # t2
        /\ hr_pc[t1] = "count" /\ hr_call[t1].name = n
        /\ hr_components[n] \notin
              { EntryAfter(SubSeq(hr_hist[n], 1, k)) : k \in 1..Len(hr_hist[n]) }
        /\ hr_pc[t2] = "with" /\ hr_call[t2].op = "get_health_summary"
        /\ hr_components[n].total_checks = 2
        /\ hr_lock.owner = t1

\* ---------------------------------------------------------------------- C15
\* The depends_on graph of the registered classes: the names y that x names.
DependsOn(x) ==
    IF x \in DOMAIN reg_component_map
    THEN { reg_component_map[x].depends_on[i] :
             i \in 1..Len(reg_component_map[x].depends_on) }
    ELSE {}

\* The names reached from x along at least one and at most k edges.
RECURSIVE ReachedIn(_, _)
ReachedIn(x, k) ==
    IF k = 1 THEN DependsOn(x)
    ELSE ReachedIn(x, k - 1)
            \cup UNION { DependsOn(y) : y \in ReachedIn(x, k - 1) }

GraphHasCycle ==
    \E x \in DOMAIN reg_component_map : x \in ReachedIn(x, Cardinality(RegNames))

GraphHasMissing ==
    \E x \in DOMAIN reg_component_map : ~ (DependsOn(x) \subseteq DOMAIN reg_component_map)

\* C15: validate_dependencies raises ValueError if and only if a registered
\* class names a dependency that is not registered or the depends_on graph has
\* a cycle (a class naming itself included); otherwise it returns True; and
\* running it again on the same registrations gives the same outcome.
C15_ValidateDependencies ==
    reg_outcome # NoOutcome =>
        /\ reg_outcome.raised = "ValueError" <=> (GraphHasMissing \/ GraphHasCycle)
        /\ reg_outcome.raised # "ValueError" =>
              (reg_outcome.raised = "-" /\ reg_outcome.returned = "True")
        /\ reg_outcome = validate_dependencies(reg_components, reg_component_map)

\* Three classes are registered, every dependency is registered, two of the
\* classes depend on each other, and validate_dependencies has raised.
C15_Witness ==
    /\ Len(reg_components) = 3
    /\ ~ GraphHasMissing
    /\ \E x, y \in RegNames : x # y /\ y \in DependsOn(x) /\ x \in DependsOn(y)
    /\ reg_outcome.raised = "ValueError"
    /\ reg_outcome.kind = "circular"

\* ---------------------------------------------------------------------- C16
\* Every class of the list is in exactly one batch, at one position, and the
\* batches hold nothing else.
EachInOneBatch(batches, classes) ==
    /\ \A i \in 1..Len(classes) :
          Cardinality({ p \in (1..Len(batches)) \X (1..Len(classes)) :
                          /\ p[2] <= Len(batches[p[1]])
                          /\ batches[p[1]][p[2]] = classes[i] }) = 1
    /\ \A b \in 1..Len(batches) : \A k \in 1..Len(batches[b]) :
          \E i \in 1..Len(classes) : batches[b][k] = classes[i]

\* Every dependency of a member of a batch is in an earlier batch.
DependentsLater(batches) ==
    \A b \in 1..Len(batches) : \A k \in 1..Len(batches[b]) :
        \A d \in 1..Len(batches[b][k].depends_on) :
            \E a \in 1..(b - 1) : batches[b][k].depends_on[d] \in NamesOf(batches[a])

\* C16: the batches computed for the registered classes hold every class
\* exactly once, each in a batch strictly later than the batches of all its
\* dependencies; when some classes can never be scheduled (a cycle, an
\* unregistered dependency) the computation raises a configuration error
\* that names them, and initialize_components fails without batches and
\* without components.
C16_DependencyBatches ==
    /\ (mgr_run.pc \in {"initialized", "batches"}
            /\ (mgr_run.raised = "-" \/ mgr_run.batches # <<>>)
            /\ reg_components # <<>>)
        => /\ EachInOneBatch(mgr_run.batches, reg_components)
           /\ DependentsLater(mgr_run.batches)
           /\ \A b \in 1..Len(mgr_run.batches) : mgr_run.batches[b] # <<>>
    /\ mgr_run.pc = "batches"
        => /\ mgr_run.raised = "ValueError" <=> (GraphHasCycle \/ GraphHasMissing)
           /\ mgr_run.raised = "ValueError" =>
                 (mgr_run.failed # {} /\ mgr_run.failed \subseteq NamesOf(reg_components))
           /\ mgr_run.raised \in {"-", "ValueError"}
    /\ (mgr_run.pc = "initialized" /\ (GraphHasCycle \/ GraphHasMissing))
        => (mgr_run.raised = "ValueError" /\ mgr_run.batches = <<>>
            /\ mgr.components = <<>>)

\* initialize_components has built two batches for three classes: two classes
\* without dependencies and a class that depends on one of them.
C16_Witness ==
    /\ mgr_run.pc = "initialized"
    /\ mgr_run.raised = "-"
    /\ Len(mgr_run.batches) = 2
    /\ Len(mgr_run.batches[1]) = 2
    /\ Len(mgr_run.batches[2]) = 1
    /\ mgr_run.batches[2][1].depends_on # <<>>

\* The names of the events of one kind, in the order of the log.
RECURSIVE NamesOfEvents(_, _)
NamesOfEvents(events, ev) ==
    IF events = <<>> THEN <<>>
    ELSE LET rest == NamesOfEvents(SubSeq(events, 1, Len(events) - 1), ev)
             last == events[Len(events)]
         IN IF last.ev = ev THEN Append(rest, last.name) ELSE rest

IsPrefix(s, t) == Len(s) <= Len(t) /\ s = SubSeq(t, 1, Len(s))

Reversed(s) == [k \in 1..Len(s) |-> s[Len(s) + 1 - k]]

ShutdownsInvoked == NamesOfEvents(mgr_events, "shutdown")

StartupsInvoked == NamesOfEvents(mgr_events, "startup")

DependsOnOf(n) ==
    LET c == mgr.components[IndexOfName(mgr.components, n)]
    IN { c.depends_on[k] : k \in 1..Len(c.depends_on) }

StartupsRaised == NamesOfEvents(mgr_events, "startup_raised")

RangeOf(s) == { s[k] : k \in 1..Len(s) }

BatchOf(n) == CHOOSE b \in 1..Len(mgr_run.batches) : n \in RangeOf(mgr_run.batches[b])

\* C19: with fail_on_component_error false startup_all never raises, in
\* parallel and in sequential mode alike; when it returns, startup() was
\* invoked on every component of every batch, the components whose startup()
\* raised are exactly the recorded failures, they are Failed and counted,
\* and the returned value tells whether there was none.
C19_FailureIsolated ==
    ~ mgr.fail_on_component_error =>
        /\ mgr_run.pc # "raised"
        /\ mgr_run.raised = "-"
        /\ mgr_run.pc = "returned" =>
              /\ StartupsInvoked = Flatten(mgr_run.batches)
              /\ RangeOf(mgr_run.failed) = RangeOf(StartupsRaised)
              /\ mgr.failed_components = Len(StartupsRaised)
              /\ mgr.successful_components = Len(mgr.components) - Len(StartupsRaised)
              /\ mgr_run.returned = (StartupsRaised = <<>>)
              /\ \A k \in 1..Len(mgr.components) :
                    mgr.components[k].state =
                        IF mgr.components[k].name \in RangeOf(StartupsRaised)
                        THEN "failed" ELSE "ready"

\* C19 witness: fail-fast is off, the first started component of a first
\* batch of two raised, and startup_all returned after starting its sibling
\* and the component of the second batch.
C19_Witness ==
    /\ ~ mgr.fail_on_component_error
    /\ mgr_run.pc = "returned"
    /\ Len(mgr_run.batches) = 2
    /\ Len(mgr_run.batches[1]) = 2
    /\ Len(mgr_events) = 6
    /\ mgr_events[2] = Event("startup_raised", mgr_run.batches[1][1])
    /\ mgr_run.failed = <<mgr_run.batches[1][1]>>

\* C20: with fail_on_component_error true, once a startup() has raised the
\* application is never served: when startup_all is left it has raised
\* RuntimeError and the lifespan has failed; after the failure no startup()
\* is invoked on a component of a later batch, and in sequential mode on no
\* component at all.
C20_FailFast ==
    (mgr.fail_on_component_error /\ StartupsRaised # <<>>) =>
        /\ mgr_run.app \in {"created", "failed"}
        /\ mgr_run.pc # "batch" =>
              /\ mgr_run.pc \in {"raised", "shutdown", "stopped"}
              /\ mgr_run.raised = "RuntimeError"
              /\ mgr_run.returned = "-"
              /\ mgr_run.app = "failed"
        /\ \A k, m \in 1..Len(mgr_events) :
              (k < m /\ mgr_events[k].ev = "startup_raised"
                     /\ mgr_events[m].ev = "startup") =>
                  /\ BatchOf(mgr_events[m].name) <= BatchOf(mgr_events[k].name)
                  /\ mgr.parallel_startup

\* C20 witness: fail-fast is on, a component of a first batch of two that
\* was started in parallel raised, startup_all raised after the batch and
\* the component of the second batch was never started.
C20_Witness ==
    /\ mgr.fail_on_component_error
    /\ mgr.parallel_startup
    /\ mgr_run.pc = "raised"
    /\ mgr_run.app = "failed"
    /\ Len(mgr_run.batches) = 2
    /\ Len(mgr_run.batches[1]) = 2
    /\ Len(StartupsRaised) = 1
    /\ StartupsInvoked = mgr_run.batches[1]

\* C21: when initialize_components has returned with fail_on_component_error
\* false, no class whose instantiation step (lines 129-131) ended in the
\* except clause has an instance in self.components.
C21_FailedAbsent ==
    (mgr_run.pc = "initialized" /\ ~ mgr.fail_on_component_error
                                /\ mgr_run.raised = "-") =>
        \A k \in 1..Len(mgr_run.failed) :
            mgr_run.failed[k] \notin NamesOf(mgr.components)

\* C22: when startup_all has returned, its value is True exactly if no
\* component is Failed, which is exactly if no startup() raised; the two
\* counters add up to the number of managed components; and whatever the
\* value, the lifespan goes on to serve the application.
C22_AllSuccessful ==
    mgr_run.pc = "returned" =>
        /\ mgr_run.returned \in BOOLEAN
        /\ mgr_run.returned = (\A k \in 1..Len(mgr.components) :
                                   mgr.components[k].state # "failed")
        /\ mgr_run.returned = (StartupsRaised = <<>>)
        /\ mgr.successful_components + mgr.failed_components = Len(mgr.components)
        /\ mgr_run.app = "serving"

\* C22 witness: startup_all returned False with one of three components
\* failed and two started, and the application is served.
C22_Witness ==
    /\ mgr_run.pc = "returned"
    /\ mgr_run.returned = FALSE
    /\ mgr_run.app = "serving"
    /\ Len(mgr.components) = 3
    /\ mgr.failed_components = 1
    /\ mgr.successful_components = 2

\* Position of a state on Uninitialized -> Initializing ->
\* Ready | Degraded | Failed -> Stopping -> Stopped.
StateRank(state) ==
    CASE state = "uninitialized" -> 0
      [] state = "initializing" -> 1
      [] state \in {"ready", "degraded", "failed"} -> 2
      [] state = "stopping" -> 3
      [] OTHER -> 4

HasEvent(ev, n) == \E k \in 1..Len(mgr_events) : mgr_events[k] = Event(ev, n)

\* In every state: an Initializing component has had startup() invoked and
\* not yet ended; a Ready component has had startup() invoked and returned
\* without error; a component whose startup() raised is not Ready.
StateFollowsStartup ==
    \A k \in 1..Len(mgr.components) :
        LET c == mgr.components[k]
        IN /\ c.state = "initializing" =>
                 /\ HasEvent("startup", c.name)
                 /\ ~ HasEvent("startup_returned", c.name)
                 /\ ~ HasEvent("startup_raised", c.name)
           /\ c.state = "ready" =>
                 /\ HasEvent("startup", c.name)
                 /\ HasEvent("startup_returned", c.name)
           /\ HasEvent("startup_raised", c.name) => c.state # "ready"
           /\ HasEvent("startup_returned", c.name) => c.state # "failed"

\* In every step: the components stay the same objects, no state moves
\* backward on the chain, and Ready and Failed are never exchanged.
StateMovesForward ==
    /\ Len(mgr'.components) = Len(mgr.components)
    /\ \A k \in 1..Len(mgr.components) :
          LET before == mgr.components[k].state
              after == mgr'.components[k].state
          IN /\ StateRank(before) <= StateRank(after)
             /\ StateRank(before) = StateRank(after) => before = after

C24_HealthCheckAll ==
    /\ mgr_run.pc # "health_check_raised"
    /\ mgr_run.pc \in {"health_check", "health_checked"} => mgr_run.raised = "-"
    /\ mgr_run.pc = "health_checked" =>
          /\ DOMAIN mgr_run.results = NamesOf(mgr.components)
          /\ Len(mgr_events) = Len(mgr.components)
          /\ \A k \in 1..Len(mgr.components) :
                LET n == mgr.components[k].name
                IN /\ mgr_events[k].name = n
                   /\ mgr_run.results[n] = (mgr_events[k].ev = "True")
                   /\ mgr_events[k].ev = "raises" =>
                         /\ n \in DOMAIN hr_components
                         /\ hr_components[n].status = "unhealthy"

\* C24 witness: the health check of the first of three components raised,
\* the second returned True and the third False, and health_check_all has
\* returned all three results.
C24_Witness ==
    /\ mgr_run.pc = "health_checked"
    /\ Len(mgr.components) = 3
    /\ Len(mgr_events) = 3
    /\ mgr_events[1].ev = "raises"
    /\ mgr_events[2].ev = "True"
    /\ mgr_events[3].ev = "False"

\* C25: the health_check handler answers 503 exactly if the overall status
\* of the registry snapshot in its body is Degraded or Unhealthy and 200
\* otherwise, and the overall_status it reports is the one of that snapshot.
C25_StatusCode ==
    (hr_returned.op = "GET" /\ RoutedTo(hr_returned.path) = "health_check") =>
        /\ hr_returned.status_code \in {200, 503}
        /\ hr_returned.status_code = 503 <=>
              get_overall_status(hr_returned.components) \in {"degraded", "unhealthy"}
        /\ "overall_status" \in hr_returned.keys
        /\ hr_returned.overall = get_overall_status(hr_returned.components)

\* C25 witness: a request was answered 503 with overall status Degraded
\* from a snapshot of the registry, which has been updated since.
C25_Witness ==
    /\ hr_returned.op = "GET"
    /\ RoutedTo(hr_returned.path) = "health_check"
    /\ hr_returned.status_code = 503
    /\ hr_returned.overall = "degraded"
    /\ hr_returned.components # hr_components
    /\ get_overall_status(hr_components) = "healthy"

\* C30: a GET on /health is answered 200 with a body whose field "status"
\* is "healthy".
C30_HealthPath ==
    (hr_returned.op = "GET" /\ hr_returned.path = "/health") =>
        /\ hr_returned.status_code = 200
        /\ "status" \in hr_returned.keys
        /\ hr_returned.overall = "healthy"


\* A call of a method of the face service has returned or raised.
FaceHasReturned == DOMAIN face_returned # {}

\* C26: when the detector finds no face, extract_embeddings returns
\* success = true, face_detected = false and faces = [], and the response of
\* the ExtractEmbedding(s) RPC is still marked success = true; a decode or an
\* internal failure is answered with success = false.
C26_ZeroFacesSuccess ==
    (FaceHasReturned /\ face_returned.request.op = "extract_embeddings") =>
        /\ (face_returned.result.raised = "-" /\ face_returned.detected.faces = <<>>) =>
              /\ face_returned.result.success
              /\ face_returned.result.face_detected = "False"
              /\ face_returned.result.faces = <<>>
              /\ face_returned.response.success
        /\ face_returned.result.raised # "-" => ~ face_returned.response.success

\* C27: when the detector returns n faces and max_faces = m > 0, the result
\* of detect_faces, extract_embeddings and process_frame holds the first
\* min(n, m) faces of the detector's output, in that order, and process_frame
\* gives them the face_id 0..k-1 in that order.
C27_FirstFacesKept ==
    (/\ FaceHasReturned
     /\ face_returned.result.raised = "-"
     /\ face_returned.request.max_faces > 0) =>
        LET n == Len(face_returned.detected.faces)
            m == face_returned.request.max_faces
            k == IF n < m THEN n ELSE m
        IN /\ Len(face_returned.result.faces) = k
           /\ \A j \in 1..k :
                /\ face_returned.result.faces[j].det = face_returned.detected.faces[j].det
                /\ face_returned.result.faces[j].confidence =
                       face_returned.detected.faces[j].confidence
                /\ face_returned.request.op = "process_frame" =>
                       face_returned.result.faces[j].face_id = j - 1

\* C28: detect_faces and extract_embeddings raise InvalidImageException,
\* without calling the detector, for every submitted decodable image of more
\* than 4096 x 4096 pixels or of a width or height below 40, and they do not
\* raise it for a decodable image within those bounds.
C28_SubmittedImageBounds ==
    (/\ FaceHasReturned
     /\ face_returned.request.op \in {"detect_faces", "extract_embeddings"}
     /\ face_returned.request.image.decodes) =>
        LET image == face_returned.request.image
            outside == \/ image.h * image.w > MAX_PIXELS
                       \/ image.h < MIN_DIMENSION
                       \/ image.w < MIN_DIMENSION
        IN /\ outside => /\ face_returned.result.raised = "InvalidImageException"
                         /\ ~ face_returned.result.detector_called
           /\ ~ outside => face_returned.result.raised # "InvalidImageException"

\* C29: a FaceRecognitionService constructs at most one detector and at most
\* one embedder, also when several workers make their first call at the same
\* time, and no worker has called a detector that was replaced afterwards.
C29_ModelsBuiltOnce ==
    /\ face_service.detectors_built <= 1
    /\ face_service.embedders_built <= 1
    /\ \A w \in Workers :
          face_call[w].detector_used \in {0, face_service.detector}

\* ---------------------------------------------------------------------- C31
\* C31: when validate_dependencies raises because of a cycle, the reported
\* path starts and ends with the same name and every name of it is followed
\* by one of its own depends_on entries: it is a cycle of the registered graph.
C31_ReportedCycleIsReal ==
    reg_outcome.kind = "circular" =>
        LET path == reg_outcome.path
        IN /\ Len(path) >= 2
           /\ path[1] = path[Len(path)]
           /\ \A k \in 1..(Len(path) - 1) :
                /\ path[k] \in DOMAIN reg_component_map
                /\ path[k + 1] \in DependsOn(path[k])

\* A cycle of two names was reported that does not pass through the first
\* registered class, from which the search started.
C31_Witness ==
    /\ reg_outcome.kind = "circular"
    /\ Len(reg_outcome.path) = 3
    /\ Len(reg_components) = 3
    /\ reg_components[1].name \notin RangeOf(reg_outcome.path)
    /\ reg_components[1].depends_on # <<>>

\* ---------------------------------------------------------------------- C32
\* The list holds one class per name, and the map holds exactly the classes
\* of the list under their names.
RegistryConsistent ==
    /\ KeysOf(reg_components) \in Seq(DOMAIN reg_component_map)
    /\ RangeOf(KeysOf(reg_components)) = DOMAIN reg_component_map
    /\ \A i, j \in 1..Len(reg_components) :
          reg_components[i].name = reg_components[j].name => i = j
    /\ \A i \in 1..Len(reg_components) :
          reg_component_map[reg_components[i].name] = reg_components[i]

\* A step keeps every class registered so far at its place in the list and
\* under its name in the map, and a call of register that met a registered
\* name or a class without its own name leaves the list and the map as they
\* were.
FirstRegistrationKept ==
    /\ IsPrefix(reg_components, reg_components')
    /\ \A n \in DOMAIN reg_component_map :
          /\ n \in DOMAIN reg_component_map'
          /\ reg_component_map'[n] = reg_component_map[n]
    /\ reg_registered'.kind \in {"duplicate", "ValueError"} =>
          UNCHANGED <<reg_components, reg_component_map>>
    /\ reg_registered'.kind = "duplicate" =>
          reg_registered'.name \in DOMAIN reg_component_map
    /\ reg_registered'.kind = "ValueError" <=>
          reg_registered'.name = "UnnamedComponent"

\* C32: after any sequence of register calls the registry holds at most one
\* class per name, the names of the list are the keys of the map, the first
\* class registered under a name is kept; a later register of a registered
\* name returns without error and changes neither the list nor the map, and a
\* class without its own name raises and changes nothing.
C32_FirstRegistrationWins == [](RegistryConsistent) /\ [][FirstRegistrationKept]_vars

\* With two names registered, register was called with another class of the
\* name registered first.
C32_Witness ==
    /\ Len(reg_components) = 2
    /\ reg_registered.kind = "duplicate"
    /\ reg_registered.name = reg_components[1].name
    /\ ~ reg_registered.same_class

\* ---------------------------------------------------------------------- C33
\* startup() of component n has returned or raised before the p-th event.
StartupCompletedBefore(n, p) ==
    \E q \in 1..(p - 1) :
        /\ mgr_events[q].name = n
        /\ mgr_events[q].ev \in {"startup_returned", "startup_raised"}

\* C33: during startup_all, startup() of a component is invoked only after
\* startup() of every component it depends on has returned or raised, and
\* only after every startup() of every earlier batch has returned or raised,
\* in parallel and in sequential mode.
C33_BatchBarrier ==
    \A p \in 1..Len(mgr_events) :
        mgr_events[p].ev = "startup" =>
            /\ \A d \in DependsOnOf(mgr_events[p].name) : StartupCompletedBefore(d, p)
            /\ \A b \in 1..(BatchOf(mgr_events[p].name) - 1) :
                  \A n \in RangeOf(mgr_run.batches[b]) : StartupCompletedBefore(n, p)

\* In parallel mode both components of the first batch were started before
\* either had finished, one of them raised, and the component of the second
\* batch, which depends on the one that raised, was started afterwards.
C33_Witness ==
    /\ mgr.parallel_startup
    /\ Len(mgr_run.batches) = 2
    /\ Len(mgr_run.batches[1]) = 2
    /\ Len(mgr_events) = 6
    /\ mgr_events[1].ev = "startup" /\ mgr_events[2].ev = "startup"
    /\ mgr_events[5] = Event("startup", mgr_run.batches[2][1])
    /\ \E q \in 3..4 :
          /\ mgr_events[q].ev = "startup_raised"
          /\ mgr_events[q].name \in DependsOnOf(mgr_run.batches[2][1])

\* ---------------------------------------------------------------------- C34
\* A step that yields a response yields one, for the request being handled,
\* with that request's frame_id and camera_id ("unknown" for an empty one),
\* and a request is consumed only between two frames.
ResponseAnswersRequest ==
    \A c \in Calls :
        /\ nresp'[c] # nresp[c] =>
              /\ nresp'[c] = nresp[c] + 1
              /\ pc[c] = "frame"
              /\ resp'[c].frame_id = req[c].frame_id
              /\ resp'[c].frame_id = Len(log[c])
              /\ resp'[c].camera_id = ClaimedCamera(req[c].camera_id)
        /\ Len(log'[c]) # Len(log[c]) =>
              /\ Len(log'[c]) = Len(log[c]) + 1
              /\ pc[c] = "iter" /\ active[c]

\* Every request consumed has its response, the one being handled excepted.
EveryRequestAnswered ==
    \A c \in Calls :
        nresp[c] = IF pc[c] = "frame" THEN Len(log[c]) - 1 ELSE Len(log[c])

\* The same, the request excepted during which a fatal exception ended the
\* call.
EveryRequestAnsweredUnlessFatal ==
    \A c \in Calls :
        nresp[c] = IF pc[c] = "frame" \/ LastPath(c) = "fatal"
                   THEN Len(log[c]) - 1 ELSE Len(log[c])

\* C34 as stated: every request consumed while the call is active produces
\* exactly one response before the next request is consumed, carrying the
\* request's frame_id and camera_id ("unknown" when empty), so the responses
\* follow the requests in arrival order, none missing, doubled or reordered.
C34_AsStated == [](EveryRequestAnswered) /\ [][ResponseAnswersRequest]_vars

\* C34 amended: the same, except that the request during whose handling a
\* fatal exception aborts the call gets no response (it is the call's last).
C34_Amended == [](EveryRequestAnsweredUnlessFatal) /\ [][ResponseAnswersRequest]_vars

\* A call answered its first request, of an empty camera_id, and was aborted
\* by a fatal exception while it handled its second.
C34_Witness ==
    \E c \in Calls :
        /\ Len(log[c]) = 2
        /\ nresp[c] = 1
        /\ LastPath(c) = "fatal"
        /\ status[c] = "INTERNAL"
        /\ resp[c].frame_id = 1
        /\ resp[c].camera_id = "unknown"

\* ---------------------------------------------------------------------- C35
\* The frames of camera cam that passed the throttle, as (call, position).
PassedFrames(cam) ==
    { f \in Calls \X (1..MaxFrames) :
        /\ f[2] <= Len(log[f[1]])
        /\ log[f[1]][f[2]].camera_id = cam
        /\ log[f[1]][f[2]].path \in {"decode_error", "process_error", "ok", "fatal"} }

\* Any two frames of a camera that passed the throttle lie at least
\* min_frame_interval_ms apart.
PassedFramesApart ==
    \A cam \in CameraIds : \A f, g \in PassedFrames(cam) :
        f # g =>
            LET d == log[f[1]][f[2]].timestamp_ms - log[g[1]][g[2]].timestamp_ms
            IN d >= MinFrameIntervalMs \/ 0 - d >= MinFrameIntervalMs

\* A step never lowers a stored last-processed timestamp, and drops a frame
\* whose timestamp is lower than the stored one.
LastProcessedGrows ==
    /\ \A cam \in DOMAIN last_process_time :
          /\ cam \in DOMAIN last_process_time'
          /\ last_process_time'[cam] >= last_process_time[cam]
    /\ \A c \in Calls :
          (/\ HandlesFrame(c)
           /\ req[c].timestamp_ms <
                  DictGet(last_process_time, ClaimedCamera(req[c].camera_id), 0)) =>
              LastPath(c)' = "throttled"

\* C35: for every camera and any sequence of frame timestamps, the stored
\* last-processed timestamp never decreases, any two frames of the camera
\* that pass the throttle are at least min_frame_interval_ms apart, and a
\* frame of a timestamp lower than the last processed one is dropped.
C35_ThrottleSpacing == [](PassedFramesApart) /\ [][LastProcessedGrows]_vars

\* ---------------------------------------------------------------------- C36
\* C36: when a call has ended, by end of input, by cancellation or by a
\* fatal exception, the session summary of each of its cameras that processed
\* a frame has been emitted exactly once, never twice.
C36_SummaryExactlyOnce ==
    \A c \in Calls :
        pc[c] = "done" =>
            \A cam \in DOMAIN camera_metrics[c] :
                camera_metrics[c][cam].frames_processed > 0 => summaries[c][cam] = 1

\* ---------------------------------------------------------------------- C37
\* A report on name n has returned in the step, and the call it was.
ReportedOn(n) == hr_hist'[n] # hr_hist[n]

LastReport(n) == hr_hist'[n][Len(hr_hist'[n])]

\* C37: a report of Healthy on a known component (register_component or
\* mark_healthy) sets its status, counts the check and resets
\* consecutive_failures, and leaves the error_message of an earlier
\* mark_degraded or mark_failed as it was; no report of any kind changes or
\* removes the entry of another component.
C37_HealthyKeepsErrorMessage ==
    [][\A n \in ReportNames :
        ReportedOn(n) =>
            /\ \A m \in DOMAIN hr_components :
                  /\ m \in DOMAIN hr_components'
                  /\ m # n => hr_components'[m] = hr_components[m]
            /\ DOMAIN hr_components' = DOMAIN hr_components \cup {n}
            /\ (/\ n \in DOMAIN hr_components
                /\ ViaRegister(LastReport(n))
                /\ LastReport(n).status = "healthy") =>
                  /\ hr_components'[n].error_message = hr_components[n].error_message
                  /\ hr_components'[n].status = "healthy"
                  /\ hr_components'[n].total_checks = hr_components[n].total_checks + 1
                  /\ hr_components'[n].consecutive_failures = 0
      ]_vars

\* A component marked failed and then reported healthy is Healthy and still
\* carries the error message, next to another component that is Unhealthy.
C37_Witness ==
    \E n, m \in ReportNames :
        /\ n # m
        /\ n \in DOMAIN hr_components /\ m \in DOMAIN hr_components
        /\ hr_components[n].status = "healthy"
        /\ hr_components[n].error_message = "reason"
        /\ hr_components[n].total_checks = 2
        /\ hr_components[m].status = "unhealthy"

\* ---------------------------------------------------------------------- C38
\* C38: a health check of health_check_all changes the Health Registry only
\* in the entry of the component checked: it becomes Degraded if the
\* component is Ready and the check returned False, Unhealthy if the check
\* raised, and stays as it is otherwise (a passing check, also of a component
\* degraded before, and a check returning False of a component that is not
\* Ready); no entry is ever made Healthy.
C38_HealthCheckFrame ==
    [][Len(mgr_events') = Len(mgr_events) + 1 =>
        LET e == mgr_events'[Len(mgr_events')]
            c == mgr.components[IndexOfName(mgr.components, e.name)]
        IN /\ \A m \in DOMAIN hr_components :
                 /\ m \in DOMAIN hr_components'
                 /\ m # e.name => hr_components'[m] = hr_components[m]
           /\ DOMAIN hr_components' \subseteq DOMAIN hr_components \cup {e.name}
           /\ \A m \in DOMAIN hr_components' : hr_components'[m].status # "healthy"
           /\ CASE e.ev = "raises" -> hr_components'[e.name].status = "unhealthy"
                [] e.ev = "False" /\ c.state = "ready" ->
                       hr_components'[e.name].status = "degraded"
                [] OTHER -> hr_components' = hr_components
      ]_vars

\* A Ready component was marked Degraded by a first health_check_all, its
\* check passed in the second one and it is still Degraded; a component that
\* is not Ready returned False and has the entry its failed startup left.
C38_Witness ==
    /\ mgr_run.checks = 2
    /\ mgr_run.pc = "health_checked"
    /\ Len(mgr.components) = 2
    /\ Len(mgr_events) = 2
    /\ \A k \in 1..2 : mgr.components[k].name \in DOMAIN hr_components
    /\ mgr.components[1].state = "ready"
    /\ mgr_events[1].ev = "True"
    /\ hr_components[mgr.components[1].name].status = "degraded"
    /\ hr_components[mgr.components[1].name].total_checks = 1
    /\ mgr.components[2].state = "failed"
    /\ mgr_events[2].ev = "False"
    /\ hr_components[mgr.components[2].name].status = "unhealthy"
    /\ hr_components[mgr.components[2].name].total_checks = 1

\* ---------------------------------------------------------------------- C39
\* The phases a lifespan context that has ended must have gone through when
\* nothing raised, by the manager method invoked.
LifespanPhases == <<"initialize_components", "startup_all", "serving", "shutdown_all">>

\* C39: the lifespan context runs initialize_components, startup_all, the
\* serving of the application and shutdown_all in this order; shutdown_all is
\* invoked exactly once on every exit, also after initialization or startup
\* raised, and the context is left by an exception only if initialization or
\* startup raised one.
C39_LifespanOrder ==
    mgr_run.pc = "stopped" =>
        LET phases == [k \in 1..Len(mgr_events) |-> mgr_events[k].ev]
        IN /\ Len(NamesOfEvents(mgr_events, "shutdown_all")) = 1
           /\ phases # <<>>
           /\ phases[Len(phases)] = "shutdown_all"
           /\ phases[1] = "initialize_components"
           /\ IsPrefix(SubSeq(phases, 1, Len(phases) - 1), LifespanPhases)
           /\ mgr_run.raised = "-" => phases = LifespanPhases

\* ---------------------------------------------------------------------- C40
\* A call of start, stop or shutdown has just ended.
ServerCallEnded == grpc_server'.calls = grpc_server.calls + 1

\* The handle is None or the server created last.
OneServerOwned == grpc_server.server \in {0, grpc_server.created}

\* What one call does to the handle.
ServerCallEffect ==
    ServerCallEnded =>
        LET s == grpc_server
            t == grpc_server'
            r == grpc_returned'
        IN /\ r.raised => r.op = "start" /\ s.server = 0
           /\ (r.op = "start" /\ s.server # 0) =>
                  /\ t.server = s.server /\ t.created = s.created
                  /\ t.started = s.started /\ hr_components' = hr_components
           /\ (r.op # "start" /\ s.server = 0) =>
                  /\ t = [s EXCEPT !.calls = @ + 1]
                  /\ hr_components' = hr_components
           /\ (r.op # "start" /\ s.server # 0) =>
                  /\ t.server = 0
                  /\ t.cleanups = s.cleanups + 1
                  /\ t.created = s.created
           /\ (r.op = "start" /\ s.server = 0 /\ r.outcome # "create_raises") =>
                  /\ t.server = s.created + 1
                  /\ t.created = s.created + 1

\* C40: a GRPCServer holds at most one grpc server, the one created last;
\* start() on a server whose handle is set changes nothing, stop() on a
\* server whose handle is None changes nothing, stop() on a held server
\* clears the handle, runs the cleanup of the face service once and never
\* raises, also when stopping raised; start() on a cleared handle creates a
\* server that was never held before.
C40_OneServerAtATime == [](OneServerOwned) /\ [][ServerCallEffect]_vars

\* A server whose stop raised was cleaned up and released without an
\* exception, and the start after it holds a second, new server.
C40_Witness ==
    /\ grpc_returned.op = "start"
    /\ grpc_returned.outcome = "started"
    /\ grpc_server.server = 2
    /\ grpc_server.cleanups = 1
    /\ hr_hist["grpc_server"][4].op = "mark_failed"

====
